---- MODULE Spec2Model ----
(***************************************************************************)
(* Retrieval and context-assembly engine of the advisory assistant         *)
(* (backend/src/services/retrieval.ts, ragConfig.ts).                      *)
(*                                                                         *)
(* Strings are sequences of one-character strings, so that toLowerCase,    *)
(* trim, includes and the \b(...)\b patterns are computed character by     *)
(* character.  Times are milliseconds (Date.now()).                        *)
(***************************************************************************)
EXTENDS Integers, Sequences, FiniteSets, Bags, TLC

VARIABLES
  now,                  \* Date.now()
  ticks,                \* number of clock advances so far (bounded)
  classificationCache,  \* Map<string, CachedClassification>
  clsPending,           \* per query, the classifyQueryDomain calls awaiting the model
  clsStarted,           \* number of classifyQueryDomain calls started
  clsRet,               \* what the step just taken returned from classifyQueryDomain, if it did
  clsLookup,            \* the getCachedClassification lookup of the step just taken, if any
  clsStored,            \* history: per key, the last setCachedClassification
  embeddingCache,       \* an LRUCache: [map, maxSize], map in insertion order
  lruClock,             \* number of LRUCache operations so far
  lruAccess,            \* history: per cached key, the clock of its last get hit or set
  lruLast,              \* the LRUCache operation just applied, with the state before it
  lruRecent,            \* history: the keys last stored or found, latest last, maxSize at most
  ragConfig,            \* the configuration loaded at startup
  asmChunks,            \* a chunk list handed to toContext and buildSources
  asmDone,              \* whether they have run
  asmContext,           \* the string toContext returned
  asmSources,           \* the list buildSources returned
  rtCalls,              \* the retrieveContextForQuery calls in flight, a bag of call states
  rtStarted,            \* number of retrieveContextForQuery calls started
  rtRewrite,            \* what rewriteQueryForRetrieval returned in the step just taken, if it did
  rtRet,                \* how retrieveContextForQuery ended in the step just taken, if it did
  gateRequests,         \* the chat and Telegram queries being handled, a bag of handler states
  gateStarted,          \* number of queries received
  gateDone,             \* the handler that ended in the step just taken, if one did
  configLoaded,         \* whether the ragConfig module has been evaluated
  chunkPc,              \* where the chunkPage generator is: "idle", "loop" or "done"
  chunkText,            \* the text of the page chunkPage is given
  chunkStart,           \* chunkPage's start
  chunkIterations,      \* number of iterations of chunkPage's while loop so far
  docStatus,            \* documents.processing_status of the document
  docChunks,            \* the rows of document_chunks of the document, by the run that stored them
  reprocessRequests,    \* the reprocess requests being handled, a set of handler states
  reprocessArrived,     \* number of reprocess requests received
  processRuns           \* the processDocument runs in progress, a set of run states

clsVars == <<now, ticks, classificationCache, clsPending, clsStarted, clsRet, clsLookup, clsStored>>

lruVars == <<embeddingCache, lruClock, lruAccess, lruLast, lruRecent>>

asmVars == <<ragConfig, asmChunks, asmDone, asmContext, asmSources>>

rtVars == <<rtCalls, rtStarted, rtRewrite, rtRet>>

gateVars == <<gateRequests, gateStarted, gateDone>>

chunkVars == <<chunkPc, chunkText, chunkStart, chunkIterations>>

docVars == <<docStatus, docChunks, reprocessRequests, reprocessArrived, processRuns>>

vars == <<clsVars, lruVars, asmVars, rtVars, gateVars, configLoaded, chunkVars, docVars>>

-----------------------------------------------------------------------------
(* Bounds of the model *)

MaxCalls == 2      \* classifyQueryDomain calls per behaviour
MaxTicks == 2      \* clock advances per behaviour
MaxCapacity == 2   \* largest LRUCache capacity
MaxLRUOps == 4     \* LRUCache operations per behaviour
MaxChunks == 3     \* longest chunk list handed to toContext and buildSources
MaxRetrieveCalls == 2  \* retrieveContextForQuery calls per behaviour
MaxMatches == 3    \* most rows of a search whose expansion is followed alone

-----------------------------------------------------------------------------
(* JavaScript string primitives *)

Min(S) == CHOOSE x \in S : \A y \in S : x <= y
Max(S) == CHOOSE x \in S : \A y \in S : x >= y

UpperCaseLetters ==
  <<"A","B","C","D","E","F","G","H","I","J","K","L","M",
    "N","O","P","Q","R","S","T","U","V","W","X","Y","Z">>
LowerCaseLetters ==
  <<"a","b","c","d","e","f","g","h","i","j","k","l","m",
    "n","o","p","q","r","s","t","u","v","w","x","y","z">>
DigitChars == <<"0","1","2","3","4","5","6","7","8","9">>

Range(f) == {f[i] : i \in DOMAIN f}

toLowerCaseChar(c) ==
  IF c \in Range(UpperCaseLetters)
    THEN LowerCaseLetters[CHOOSE i \in DOMAIN UpperCaseLetters : UpperCaseLetters[i] = c]
    ELSE c

\* String.prototype.toLowerCase
toLowerCase(s) == [i \in 1..Len(s) |-> toLowerCaseChar(s[i])]

\* \s of a regular expression, and the characters String.prototype.trim strips
IsWhitespace(c) == c \in {" ", "\t", "\n", "\r"}

\* String.prototype.trim
trim(s) ==
  LET keep == {i \in 1..Len(s) : ~IsWhitespace(s[i])}
  IN  IF keep = {} THEN <<>> ELSE SubSeq(s, Min(keep), Max(keep))

\* String.prototype.includes
includes(s, t) == \E i \in 0..(Len(s) - Len(t)) : SubSeq(s, i + 1, i + Len(t)) = t

\* \w of a regular expression
IsWordChar(c) ==
  c \in Range(UpperCaseLetters) \cup Range(LowerCaseLetters) \cup Range(DigitChars) \cup {"_"}

\* \b between s[p] and s[p+1] (p = 0 is the start, p = Len(s) the end of s)
WordBoundary(s, p) ==
  LET before == p >= 1 /\ IsWordChar(s[p])
      after  == p < Len(s) /\ IsWordChar(s[p + 1])
  IN  before # after

\* RegExp.prototype.test for a pattern /\b(a1|a2|...)\b/i
TestWordPattern(alternatives, s) ==
  \E a \in alternatives :
    \E i \in 0..(Len(s) - Len(a)) :
      /\ toLowerCase(SubSeq(s, i + 1, i + Len(a))) = a
      /\ WordBoundary(s, i)
      /\ WordBoundary(s, i + Len(a))

-----------------------------------------------------------------------------
(* Keyword lists *)

FINANCIAL_FAST_PATH_TERMS ==
  <<
    <<"p","r","e","m","i","u","m">>,
    <<"p","o","l","i","c","y">>,
    <<"i","n","v","e","s","t","m","e","n","t">>,
    <<"i","n","v","e","s","t","i","n","g">>,
    <<"p","o","r","t","f","o","l","i","o">>,
    <<"a","l","l","o","c","a","t","i","o","n">>,
    <<"m","u","t","u","a","l"," ","f","u","n","d">>,
    <<"e","t","f">>,
    <<"b","o","n","d">>,
    <<"e","q","u","i","t","y">>,
    <<"g","i","c">>,
    <<"m","e","r">>,
    <<"f","e","e">>,
    <<"f","e","e","s">>,
    <<"c","o","m","m","i","s","s","i","o","n">>,
    <<"s","u","i","t","a","b","i","l","i","t","y">>,
    <<"k","y","c">>,
    <<"c","o","m","p","l","i","a","n","c","e">>,
    <<"d","i","s","c","l","o","s","u","r","e">>,
    <<"w","i","t","h","d","r","a","w","a","l">>,
    <<"d","e","p","o","s","i","t">>,
    <<"t","r","a","n","s","f","e","r">>,
    <<"r","e","d","e","m","p","t","i","o","n">>,
    <<"s","u","b","s","c","r","i","p","t","i","o","n">>,
    <<"b","e","n","c","h","m","a","r","k">>,
    <<"r","e","t","u","r","n","s">>,
    <<"a","n","n","u","i","t","y">>,
    <<"w","e","a","l","t","h"," ","a","d","v","a","n","t","a","g","e">>,
    <<"g","r","e","a","t"," ","e","a","s","t","e","r","n">>,
    <<"t","p","d">>,
    <<"t","e","r","m","i","n","a","l"," ","i","l","l","n","e","s","s">>,
    <<"w","e","l","c","o","m","e"," ","b","o","n","u","s">>,
    <<"l","o","y","a","l","t","y"," ","b","o","n","u","s">>,
    <<"p","r","e","m","i","u","m"," ","h","o","l","i","d","a","y">>
  >>

CLEAR_OFF_TOPIC_PATTERN ==
  {
    <<"s","u","p","e","r"," ","b","o","w","l">>,
    <<"n","b","a">>,
    <<"n","f","l">>,
    <<"e","p","l">>,
    <<"m","l","b">>,
    <<"n","h","l">>,
    <<"s","c","o","r","e">>,
    <<"m","a","t","c","h"," ","r","e","s","u","l","t">>,
    <<"w","e","a","t","h","e","r">>,
    <<"t","e","m","p","e","r","a","t","u","r","e">>,
    <<"r","a","i","n">>,
    <<"r","e","c","i","p","e">>,
    <<"c","o","o","k">>,
    <<"r","e","s","t","a","u","r","a","n","t">>,
    <<"m","o","v","i","e">>,
    <<"f","i","l","m">>,
    <<"n","e","t","f","l","i","x">>,
    <<"m","u","s","i","c">>,
    <<"s","o","n","g">>,
    <<"c","e","l","e","b","r","i","t","y">>,
    <<"g","o","s","s","i","p">>,
    <<"t","r","a","v","e","l"," ","i","t","i","n","e","r","a","r","y">>,
    <<"f","l","i","g","h","t"," ","s","t","a","t","u","s">>,
    <<"g","a","m","e"," ","w","a","l","k","t","h","r","o","u","g","h">>
  }

REWRITE_CONTEXT_DEPENDENT_PATTERN ==
  {
    <<"i","t">>,
    <<"t","h","i","s">>,
    <<"t","h","a","t">>,
    <<"t","h","e","s","e">>,
    <<"t","h","o","s","e">>,
    <<"t","h","e","y">>,
    <<"t","h","e","m">>,
    <<"t","h","e","i","r">>,
    <<"h","e">>,
    <<"s","h","e">>,
    <<"i","t","s">>,
    <<"t","h","e","r","e">>,
    <<"h","e","r","e">>,
    <<"s","a","m","e">>,
    <<"a","g","a","i","n">>,
    <<"a","b","o","v","e">>,
    <<"b","e","l","o","w">>,
    <<"p","r","e","v","i","o","u","s">>,
    <<"e","a","r","l","i","e","r">>,
    <<"l","a","t","t","e","r">>,
    <<"f","o","r","m","e","r">>,
    <<"m","o","r","e">>,
    <<"e","l","a","b","o","r","a","t","e">>,
    <<"c","l","a","r","i","f","y">>
  }

hasClearOffTopicSignal(query) == TestWordPattern(CLEAR_OFF_TOPIC_PATTERN, toLowerCase(query))

\* a mutant of isClearlyFinancialQuery: the off-topic pattern is consulted first
isClearlyFinancialQueryUnlessOffTopic(query) ==
  LET normalized == toLowerCase(query)
  IN  /\ ~hasClearOffTopicSignal(query)
      /\ \E t \in DOMAIN FINANCIAL_FAST_PATH_TERMS :
            includes(normalized, FINANCIAL_FAST_PATH_TERMS[t])

isClearlyFinancialQuery(query) ==
  LET normalized == toLowerCase(query)
  IN  \E t \in DOMAIN FINANCIAL_FAST_PATH_TERMS :
        includes(normalized, FINANCIAL_FAST_PATH_TERMS[t])

-----------------------------------------------------------------------------
(* Query strings of the model *)

Queries ==
  { <<"n","f","l">>,                    \* matches the off-topic pattern
    <<" ","N","F","L">>,                \* the same after toLowerCase and trim
    <<"n","f","l","s">>,                \* no word boundary: matches neither list
    <<"c","o","f","f","e","e">>,        \* contains the term "fee"
    <<"n","e","t","f","l","i","x">> }   \* off-topic word that contains the term "etf"

-----------------------------------------------------------------------------
(* DomainClassification values *)

Classification(inDomain, isFinancial, reason) ==
  [in_domain |-> inDomain, is_financial |-> isFinancial, reason |-> reason]

\* heuristicDomainClassification: the conservative default
heuristicDomainClassification(query) == Classification(TRUE, TRUE, "llm-unavailable")

FastPathClassification == Classification(TRUE, TRUE, "fast-path")

-----------------------------------------------------------------------------
(* Classification cache *)

TTL_MS == 2 * 60 * 1000

\* a mutant of getCacheKeyForClassification: the query is the key as it is
getCacheKeyAsTyped(queryText) == queryText

getCacheKeyForClassification(queryText) == trim(toLowerCase(queryText))

\* a mutant of IsExpired: the entry is dead at its expiry instant
IsExpiredAtExpiry(cached, t) == t >= cached.expiresAt

\* Date.now() > cached.expiresAt
IsExpired(cached, t) == t > cached.expiresAt

\* getCachedClassification: [hit, result, cache], the cache without the entry
\* when the entry was found expired
getCachedClassification(cache, queryText, t) ==
  LET key == getCacheKeyForClassification(queryText)
  IN  IF key \notin DOMAIN cache
        THEN [hit |-> FALSE, result |-> heuristicDomainClassification(queryText), cache |-> cache]
      ELSE IF IsExpired(cache[key], t)
        THEN [hit |-> FALSE, result |-> heuristicDomainClassification(queryText),
              cache |-> [k \in DOMAIN cache \ {key} |-> cache[k]]]
      ELSE [hit |-> TRUE, result |-> cache[key].result, cache |-> cache]

\* setCachedClassification
setCachedClassification(cache, queryText, result, t) ==
  LET key == getCacheKeyForClassification(queryText)
      entry == [result |-> result, expiresAt |-> t + TTL_MS]
  IN  [k \in DOMAIN cache \cup {key} |-> IF k = key THEN entry ELSE cache[k]]

-----------------------------------------------------------------------------
(* The completion capability as classifyQueryDomain sees it.  The message    *)
(* content is a sequence of tokens: whitespace, a code fence with or        *)
(* without the json tag, a JSON value, or text that is not JSON.            *)

WS == [t |-> "ws"]
FenceJson == [t |-> "fence-json"]
Fence == [t |-> "fence"]
Garbage == [t |-> "text"]
JsonNull == [t |-> "json", shape |-> "null"]
JsonObject(inDomain, isFinancial, reason) ==
  [t |-> "json", shape |-> "object", in_domain |-> inDomain,
   is_financial |-> isFinancial, reason |-> reason]

\* a JSON field is "true", "false", or "other": absent or of another type
JsonObjects ==
  { JsonObject(d, f, r) : d \in {"true", "false", "other"},
                          f \in {"true", "false", "other"},
                          r \in {"text", "other"} }

Wrappings(j) ==
  { <<j>>, <<WS, j, WS>>, <<FenceJson, WS, j, WS, Fence>>, <<Fence, j, Fence>>,
    <<FenceJson, j>>, <<j, Garbage>> }

ModelContents ==
  {<<>>, <<WS>>, <<Garbage>>, <<JsonNull>>} \cup UNION {Wrappings(j) : j \in JsonObjects}

\* the call throws, the message has no content, or it has content
ModelOutcomes ==
  {[kind |-> "throw"], [kind |-> "no-content"]}
    \cup {[kind |-> "content", content |-> c] : c \in ModelContents}

trimTokens(s) ==
  LET keep == {i \in 1..Len(s) : s[i] # WS}
  IN  IF keep = {} THEN <<>> ELSE SubSeq(s, Min(keep), Max(keep))

RECURSIVE dropLeadingWS(_)
dropLeadingWS(s) == IF s # <<>> /\ Head(s) = WS THEN dropLeadingWS(Tail(s)) ELSE s

RECURSIVE dropTrailingWS(_)
dropTrailingWS(s) ==
  IF s # <<>> /\ s[Len(s)] = WS THEN dropTrailingWS(SubSeq(s, 1, Len(s) - 1)) ELSE s

\* raw.replace(/^```json\s*/i, '').replace(/^```\s*/i, '').replace(/\s*```$/i, '')
stripCodeFence(raw) ==
  LET a == IF raw # <<>> /\ Head(raw) = FenceJson THEN dropLeadingWS(Tail(raw)) ELSE raw
      b == IF a # <<>> /\ Head(a) = Fence THEN dropLeadingWS(Tail(a)) ELSE a
  IN  IF b # <<>> /\ b[Len(b)] = Fence THEN dropTrailingWS(SubSeq(b, 1, Len(b) - 1)) ELSE b

\* JSON.parse: one JSON value, whitespace allowed around it; anything else throws
jsonParse(cleaned) ==
  LET body == trimTokens(cleaned)
  IN  IF Len(body) = 1 /\ body[1].t = "json"
        THEN [ok |-> TRUE, value |-> body[1]]
        ELSE [ok |-> FALSE, value |-> JsonNull]

Returned(c) == [raised |-> FALSE, cached |-> FALSE, result |-> c]
ReturnedAndCached(c) == [raised |-> FALSE, cached |-> TRUE, result |-> c]
Thrown == [raised |-> TRUE, cached |-> FALSE, result |-> heuristicDomainClassification(<<>>)]

\* a mutant of safetyOverrideApplies: the lexical test is left out
safetyOverrideNever(inDomain, modelIsFinancial, queryText) == FALSE

\* line 287: the model rejects and the query has no clear off-topic signal
safetyOverrideApplies(inDomain, modelIsFinancial, queryText) ==
  ~inDomain /\ ~modelIsFinancial /\ ~hasClearOffTopicSignal(queryText)

\* lines 261-304 of classifyQueryDomain: the body of the try block, given the
\* outcome of the completion call
classifyTryBody(queryText, outcome) ==
  IF outcome.kind = "throw" THEN Thrown
  ELSE IF outcome.kind = "no-content" THEN Returned(heuristicDomainClassification(queryText))
  ELSE
    LET raw == trimTokens(outcome.content)
    IN  IF raw = <<>> THEN Returned(heuristicDomainClassification(queryText))
        ELSE
          LET parsed == jsonParse(stripCodeFence(raw))
          IN  IF ~parsed.ok THEN Thrown
              ELSE IF parsed.value.shape = "null" THEN Thrown
              ELSE IF parsed.value.in_domain \notin {"true", "false"}
                THEN Returned(heuristicDomainClassification(queryText))
              ELSE
                LET inDomain == (parsed.value.in_domain = "true")
                    modelIsFinancial ==
                      IF parsed.value.is_financial \in {"true", "false"}
                        THEN parsed.value.is_financial = "true"
                        ELSE TRUE
                    modelReason ==
                      IF parsed.value.reason = "text" THEN "model-reason" ELSE "model-default"
                IN  IF safetyOverrideApplies(inDomain, modelIsFinancial, queryText)
                      THEN ReturnedAndCached(Classification(TRUE, TRUE, "safety-override"))
                      ELSE ReturnedAndCached(Classification(inDomain, modelIsFinancial, modelReason))

\* a mutant of classifyCatch: no catch clause
classifyNoCatch(queryText, body) == body

\* try { ... } catch { return heuristicDomainClassification(queryText) }
classifyCatch(queryText, body) ==
  IF body.raised THEN Returned(heuristicDomainClassification(queryText)) ELSE body

\* what the model answers for a query, as classifyQueryDomain reads it:
\* "none" when the answer is unusable, else the pair it names
ModelVerdict(outcome) ==
  IF outcome.kind # "content" THEN "none"
  ELSE LET parsed == jsonParse(stripCodeFence(trimTokens(outcome.content)))
       IN  IF ~parsed.ok \/ parsed.value.shape # "object" THEN "none"
           ELSE IF parsed.value.in_domain \notin {"true", "false"} THEN "none"
           ELSE IF parsed.value.in_domain = "true" THEN "in-domain"
           ELSE IF parsed.value.is_financial = "false" THEN "off-topic"
           ELSE "financial"

ModelVerdicts == {ModelVerdict(o) : o \in ModelOutcomes}

-----------------------------------------------------------------------------
(* classifyQueryDomain.  The call suspends once, at the completion call;    *)
(* calls of other requests run while it is suspended.                       *)

NoReturn ==
  [kind |-> "none", query |-> <<>>, raised |-> FALSE, via |-> "none", model |-> "none",
   result |-> heuristicDomainClassification(<<>>)]

ReturnOf(queryText, via, model, out) ==
  [kind |-> "returned", query |-> queryText, raised |-> out.raised, via |-> via,
   model |-> model, result |-> out.result]

NoLookup ==
  [done |-> FALSE, key |-> <<>>, at |-> 0, hit |-> FALSE,
   result |-> heuristicDomainClassification(<<>>), conversationHistory |-> <<>>]

\* the try/catch of classifyQueryDomain for every query and completion outcome,
\* with what the model answered (evaluated once)
ClassifyOutcome ==
  [q \in Queries |->
    {[out |-> classifyCatch(q, classifyTryBody(q, o)), model |-> ModelVerdict(o)] :
       o \in ModelOutcomes}]

FastPath == [q \in Queries |-> isClearlyFinancialQuery(q)]

OffTopicSignal == [q \in Queries |-> hasClearOffTopicSignal(q)]

\* a mutant of ClassifyBegin: the cache is read only for a call without history
ClassifyBeginCacheWithoutHistory(queryText, conversationHistory) ==
  /\ clsStarted < MaxCalls
  /\ clsStarted' = clsStarted + 1
  /\ IF FastPath[queryText]
       THEN /\ \E m \in ModelVerdicts :
                 clsRet' = ReturnOf(queryText, "fast-path", m, Returned(FastPathClassification))
            /\ clsLookup' = NoLookup
            /\ UNCHANGED <<classificationCache, clsPending>>
       ELSE LET got == IF conversationHistory = <<>>
                         THEN getCachedClassification(classificationCache, queryText, now)
                         ELSE [hit |-> FALSE, result |-> heuristicDomainClassification(queryText),
                               cache |-> classificationCache]
            IN  /\ classificationCache' = got.cache
                /\ clsLookup' = [done |-> TRUE, key |-> getCacheKeyForClassification(queryText),
                                 at |-> now, hit |-> got.hit, result |-> got.result,
                                 conversationHistory |-> conversationHistory]
                /\ IF got.hit
                     THEN /\ clsRet' = ReturnOf(queryText, "cache", "not-asked", Returned(got.result))
                          /\ UNCHANGED clsPending
                     ELSE /\ clsPending' = [clsPending EXCEPT ![queryText] = @ + 1]
                          /\ clsRet' = NoReturn
  /\ UNCHANGED <<now, ticks, clsStored>>
  /\ UNCHANGED <<lruVars, asmVars, rtVars, gateVars, configLoaded, chunkVars, docVars>>

\* lines 221-234 and, on a miss, the start of the completion call
ClassifyBegin(queryText, conversationHistory) ==
  /\ clsStarted < MaxCalls
  /\ clsStarted' = clsStarted + 1
  /\ IF FastPath[queryText]
       THEN /\ \E m \in ModelVerdicts :
                 clsRet' = ReturnOf(queryText, "fast-path", m, Returned(FastPathClassification))
            /\ clsLookup' = NoLookup
            /\ UNCHANGED <<classificationCache, clsPending>>
       ELSE LET got == getCachedClassification(classificationCache, queryText, now)
            IN  /\ classificationCache' = got.cache
                /\ clsLookup' = [done |-> TRUE, key |-> getCacheKeyForClassification(queryText),
                                 at |-> now, hit |-> got.hit, result |-> got.result,
                                 conversationHistory |-> conversationHistory]
                /\ IF got.hit
                     THEN /\ clsRet' = ReturnOf(queryText, "cache", "not-asked", Returned(got.result))
                          /\ UNCHANGED clsPending
                     ELSE /\ clsPending' = [clsPending EXCEPT ![queryText] = @ + 1]
                          /\ clsRet' = NoReturn
  /\ UNCHANGED <<now, ticks, clsStored>>
  /\ UNCHANGED <<lruVars, asmVars, rtVars, gateVars, configLoaded, chunkVars, docVars>>

\* lines 268-307: the completion call of a suspended call for queryText settles
\* and the call runs to its return
ClassifyResume(queryText, effect) ==
  /\ clsPending[queryText] > 0
  /\ LET out == effect.out
         key == getCacheKeyForClassification(queryText)
     IN  /\ classificationCache' =
               IF out.cached
                 THEN setCachedClassification(classificationCache, queryText, out.result, now)
                 ELSE classificationCache
         /\ clsStored' =
               IF out.cached
                 THEN [k \in DOMAIN clsStored \cup {key} |->
                         IF k = key THEN [result |-> out.result, at |-> now] ELSE clsStored[k]]
                 ELSE clsStored
         /\ clsRet' = ReturnOf(queryText, "model", effect.model, out)
  /\ clsPending' = [clsPending EXCEPT ![queryText] = @ - 1]
  /\ clsLookup' = NoLookup
  /\ UNCHANGED <<now, ticks, clsStarted>>
  /\ UNCHANGED <<lruVars, asmVars, rtVars, gateVars, configLoaded, chunkVars, docVars>>

\* time passes
Tick(d) ==
  /\ ticks < MaxTicks
  /\ ticks' = ticks + 1
  /\ now' = now + d
  /\ clsRet' = NoReturn
  /\ clsLookup' = NoLookup
  /\ UNCHANGED <<classificationCache, clsPending, clsStarted, clsStored>>
  /\ UNCHANGED <<lruVars, asmVars, rtVars, gateVars, configLoaded, chunkVars, docVars>>

-----------------------------------------------------------------------------
(* class LRUCache: a Map, which iterates in insertion order, and a capacity *)

LRUCache(maxSize) == [map |-> <<>>, maxSize |-> maxSize]

MapKeys(map) == {map[i].key : i \in DOMAIN map}

MapIndex(map, key) == CHOOSE i \in DOMAIN map : map[i].key = key

\* Map.prototype.delete
MapDelete(map, key) ==
  IF key \in MapKeys(map)
    THEN LET i == MapIndex(map, key)
         IN  SubSeq(map, 1, i - 1) \o SubSeq(map, i + 1, Len(map))
    ELSE map

\* Map.prototype.set: a present key keeps its place, a new key goes last
MapSet(map, key, value) ==
  IF key \in MapKeys(map)
    THEN [map EXCEPT ![MapIndex(map, key)].value = value]
    ELSE Append(map, [key |-> key, value |-> value])

\* a mutant of LRUGet: a hit does not refresh the key
LRUGetNoRefresh(cache, key) ==
  IF key \in MapKeys(cache.map)
    THEN [hit |-> TRUE, value |-> cache.map[MapIndex(cache.map, key)].value, cache |-> cache]
    ELSE [hit |-> FALSE, value |-> <<>>, cache |-> cache]

\* LRUCache.get: [hit, value, cache]
LRUGet(cache, key) ==
  IF key \in MapKeys(cache.map)
    THEN LET value == cache.map[MapIndex(cache.map, key)].value
         IN  [hit |-> TRUE, value |-> value,
              cache |-> [cache EXCEPT !.map = MapSet(MapDelete(cache.map, key), key, value)]]
    ELSE [hit |-> FALSE, value |-> <<>>, cache |-> cache]

\* a mutant of LRUSet: the key is taken to be absent and the cache to have room
LRUSetAppend(cache, key, value) ==
  [cache EXCEPT !.map = Append(cache.map, [key |-> key, value |-> value])]

\* LRUCache.set
LRUSet(cache, key, value) ==
  LET kept ==
        IF key \in MapKeys(cache.map) THEN MapDelete(cache.map, key)
        ELSE IF Len(cache.map) >= cache.maxSize /\ cache.map # <<>>
          THEN MapDelete(cache.map, cache.map[1].key)
        ELSE cache.map
  IN  [cache EXCEPT !.map = MapSet(kept, key, value)]

\* LRUCache.has
LRUHas(cache, key) == key \in MapKeys(cache.map)

LRUKeys == 1..(MaxCapacity + 1)
LRUValues == {"v1", "v2"}

\* the cached key whose last access is oldest
LeastRecentlyAccessed(map, access) ==
  CHOOSE k \in MapKeys(map) : \A j \in MapKeys(map) : access[k] <= access[j]

NoLRUOp == [op |-> "none", key |-> 0, hit |-> FALSE, keysBefore |-> {}, oldest |-> 0]

LRUOp(op, key, hit) ==
  [op |-> op, key |-> key, hit |-> hit, keysBefore |-> MapKeys(embeddingCache.map),
   oldest |-> IF embeddingCache.map = <<>> THEN 0
              ELSE LeastRecentlyAccessed(embeddingCache.map, lruAccess)]

Accessed(key) ==
  [k \in MapKeys(embeddingCache'.map) |-> IF k = key THEN lruClock + 1 ELSE lruAccess[k]]

\* the history lruRecent after key is stored or found
Touched(recent, key, maxSize) ==
  LET Other(k) == k # key
      moved == Append(SelectSeq(recent, Other), key)
  IN  SubSeq(moved, Max({1, Len(moved) - maxSize + 1}), Len(moved))

CacheGet(key) ==
  /\ lruClock < MaxLRUOps
  /\ lruClock' = lruClock + 1
  /\ LET got == LRUGet(embeddingCache, key)
     IN  /\ embeddingCache' = got.cache
         /\ lruLast' = LRUOp("get", key, got.hit)
         /\ lruAccess' = IF got.hit THEN Accessed(key) ELSE lruAccess
         /\ lruRecent' = IF got.hit THEN Touched(lruRecent, key, embeddingCache.maxSize)
                                    ELSE lruRecent
  /\ UNCHANGED <<clsVars, asmVars, rtVars, gateVars, configLoaded, chunkVars, docVars>>

CacheSet(key, value) ==
  /\ lruClock < MaxLRUOps
  /\ lruClock' = lruClock + 1
  /\ embeddingCache' = LRUSet(embeddingCache, key, value)
  /\ lruLast' = LRUOp("set", key, FALSE)
  /\ lruAccess' = Accessed(key)
  /\ lruRecent' = Touched(lruRecent, key, embeddingCache.maxSize)
  /\ UNCHANGED <<clsVars, asmVars, rtVars, gateVars, configLoaded, chunkVars, docVars>>

CacheHas(key) ==
  /\ lruClock < MaxLRUOps
  /\ lruClock' = lruClock + 1
  /\ lruLast' = LRUOp("has", key, LRUHas(embeddingCache, key))
  /\ UNCHANGED <<embeddingCache, lruAccess, lruRecent>>
  /\ UNCHANGED <<clsVars, asmVars, rtVars, gateVars, configLoaded, chunkVars, docVars>>

-----------------------------------------------------------------------------
(* ragConfig: the loader.  Similarities and thresholds are in thousandths   *)
(* (0.45 is 450), computed in exact decimal arithmetic.  An environment     *)
(* value is unset, the empty string, or a string that starts with a number  *)
(* (given in thousandths) or does not, possibly followed by other text.     *)

EnvUnset == [kind |-> "unset", milli |-> 0, junk |-> FALSE]
EnvEmpty == [kind |-> "empty", milli |-> 0, junk |-> FALSE]
EnvText == [kind |-> "text", milli |-> 0, junk |-> TRUE]
EnvNumber(milli) == [kind |-> "number", milli |-> milli, junk |-> FALSE]
EnvNumberThenText(milli) == [kind |-> "number", milli |-> milli, junk |-> TRUE]

\* Numbers are IEEE 754 doubles.  The model writes a whole number of ordinary
\* size as itself.  From 10^19 on the doubles are 2048 apart; the model writes
\* Huge + k for the double 10^19 + 2048 k, which keeps the order of all the
\* numbers it handles.
Huge == 2000000000

\* the digits of the whole number 10^19 + 2048 k
EnvHuge(k) == [kind |-> "huge", milli |-> k, junk |-> FALSE]

\* a - b for a small whole number b: exact for ordinary numbers; from 10^19
\* on the exact difference lies less than half a step below a and rounds to a
Minus(a, b) == IF a >= Huge THEN a ELSE a - b

MinOf(a, b) == IF a <= b THEN a ELSE b
MaxOf(a, b) == IF a >= b THEN a ELSE b

\* the integer part of a number of thousandths, toward zero
TruncMilli(milli) == IF milli >= 0 THEN milli \div 1000 ELSE -((-milli) \div 1000)

\* parseNumberEnv, in thousandths: Number(raw) is NaN when text follows the number
parseNumberEnv(raw, fallback) ==
  IF raw.kind \in {"unset", "empty"} THEN fallback
  ELSE IF raw.kind = "text" \/ raw.junk THEN fallback
  ELSE IF raw.kind = "huge" THEN Huge + raw.milli
  ELSE raw.milli

\* parseIntEnv: Number.parseInt(raw, 10) reads the leading integer
parseIntEnv(raw, fallback) ==
  IF raw.kind \in {"unset", "empty"} THEN fallback
  ELSE IF raw.kind = "text" THEN fallback
  ELSE IF raw.kind = "huge" THEN Huge + raw.milli
  ELSE TruncMilli(raw.milli)

EnvNames ==
  {"RAG_CHUNK_SIZE", "RAG_CHUNK_OVERLAP", "RAG_MATCH_THRESHOLD", "RAG_MATCH_COUNT",
   "RAG_MIN_SOURCE_SIMILARITY", "RAG_MAX_VECTOR_MATCHES_FOR_EXPANSION",
   "RAG_MAX_PAGES_FOR_EXPANSION", "RAG_MAX_CONTEXT_CHUNKS", "RAG_MAX_CONTEXT_CHARS"}

NoEnv == [n \in EnvNames |-> EnvUnset]

\* export const ragConfig = { ... }
LoadRagConfig(env) ==
  LET chunkSize == MaxOf(300, parseIntEnv(env["RAG_CHUNK_SIZE"], 1500))
      chunkOverlap ==
        MinOf(MaxOf(50, parseIntEnv(env["RAG_CHUNK_OVERLAP"], 300)), MaxOf(50, Minus(chunkSize, 1)))
  IN  [ matchThreshold |-> MinOf(990, MaxOf(0, parseNumberEnv(env["RAG_MATCH_THRESHOLD"], 380))),
        matchCount |-> MaxOf(1, parseIntEnv(env["RAG_MATCH_COUNT"], 6)),
        minSourceSimilarity |->
          MinOf(990, MaxOf(0, parseNumberEnv(env["RAG_MIN_SOURCE_SIMILARITY"], 450))),
        maxVectorMatchesForExpansion |->
          MaxOf(1, parseIntEnv(env["RAG_MAX_VECTOR_MATCHES_FOR_EXPANSION"], 6)),
        maxPagesForExpansion |-> MaxOf(1, parseIntEnv(env["RAG_MAX_PAGES_FOR_EXPANSION"], 6)),
        maxContextChunks |-> MaxOf(1, parseIntEnv(env["RAG_MAX_CONTEXT_CHUNKS"], 14)),
        maxContextChars |-> MaxOf(1000, parseIntEnv(env["RAG_MAX_CONTEXT_CHARS"], 18000)),
        chunkSize |-> chunkSize,
        chunkOverlap |-> chunkOverlap ]

DefaultRagConfig == LoadRagConfig(NoEnv)

MaxOverrides == 2   \* most environment variables set at once

\* what an override can hold: '', 'abc', '0', '-5', '1.5', '7abc', '2000',
\* '10000000000000000000' and '10000000000000002048'
EnvOverrides ==
  {EnvEmpty, EnvText, EnvNumber(0), EnvNumber(-5000), EnvNumber(1500),
   EnvNumberThenText(7000), EnvNumber(2000000), EnvHuge(0), EnvHuge(1)}

\* process.env with the variables of names set to values
EnvWith(names, values) == [n \in EnvNames |-> IF n \in names THEN values[n] ELSE EnvUnset]

\* the process starts: the module is evaluated once, under its environment
LoadConfig(env) ==
  /\ ~configLoaded
  /\ configLoaded' = TRUE
  /\ ragConfig' = LoadRagConfig(env)
  /\ UNCHANGED <<asmChunks, asmDone, asmContext, asmSources>>
  /\ UNCHANGED <<clsVars, lruVars, rtVars, gateVars, chunkVars, docVars>>

-----------------------------------------------------------------------------
(* toContext and buildSources *)

RetrievedChunk(documentId, filename, pageNumber, text, similarity) ==
  [document_id |-> documentId, filename |-> filename, page_number |-> pageNumber,
   text |-> text, similarity |-> similarity]

\* String(n) for an integer n >= 0
RECURSIVE NumberToString(_)
NumberToString(n) ==
  IF n < 10 THEN <<DigitChars[n + 1]>>
  ELSE NumberToString(n \div 10) \o <<DigitChars[(n % 10) + 1]>>

\* `[${chunk.filename}, Page ${chunk.page_number}]\n`
Header(chunk) ==
  <<"[">> \o chunk.filename \o <<",", " ", "P", "a", "g", "e", " ">>
    \o NumberToString(chunk.page_number) \o <<"]", "\n">>

\* `[${chunk.filename}, Page ${chunk.page_number}]\n${chunk.text}`
Block(chunk) == Header(chunk) \o chunk.text

Separator == <<"\n", "\n", "-", "-", "-", "\n", "\n">>

\* String.prototype.slice(0, n) for n >= 0
SliceTo(s, n) == SubSeq(s, 1, MinOf(n, Len(s)))

\* Array.prototype.join
RECURSIVE Join(_, _)
Join(strings, sep) ==
  IF strings = <<>> THEN <<>>
  ELSE IF Len(strings) = 1 THEN strings[1]
  ELSE strings[1] \o sep \o Join(Tail(strings), sep)

\* a mutant of TruncatedFirst: the text is cut to the budget, the header not counted
TruncatedFirstNoHeader(cfg, chunk) ==
  Header(chunk) \o SliceTo(chunk.text, cfg.maxContextChars)

\* lines 323-325: the first chunk alone is over the budget
TruncatedFirst(cfg, chunk) ==
  LET header == Header(chunk)
      remaining == MaxOf(0, cfg.maxContextChars - Len(header))
  IN  header \o SliceTo(chunk.text, remaining)

\* a mutant of toContextLoop: a later chunk over the budget is skipped
\* (continue), and the loop goes on to the chunks that fit
RECURSIVE toContextLoopSkipping(_, _, _, _, _)
toContextLoopSkipping(cfg, chunks, i, selected, totalChars) ==
  IF i > Len(chunks) \/ Len(selected) >= cfg.maxContextChunks
    THEN [selected |-> selected, truncated |-> FALSE, text |-> <<>>]
  ELSE
    LET chunk == chunks[i]
        block == Block(chunk)
        separatorLength == IF Len(selected) = 0 THEN 0 ELSE Len(Separator)
        nextTotal == totalChars + separatorLength + Len(block)
    IN  IF nextTotal > cfg.maxContextChars
          THEN IF Len(selected) = 0
                 THEN [selected |-> selected, truncated |-> TRUE,
                       text |-> TruncatedFirst(cfg, chunk)]
                 ELSE toContextLoopSkipping(cfg, chunks, i + 1, selected, totalChars)
          ELSE toContextLoopSkipping(cfg, chunks, i + 1, Append(selected, chunk), nextTotal)

\* the for loop of toContext from chunk i on: [selected, truncated, text]
RECURSIVE toContextLoop(_, _, _, _, _)
toContextLoop(cfg, chunks, i, selected, totalChars) ==
  IF i > Len(chunks) \/ Len(selected) >= cfg.maxContextChunks
    THEN [selected |-> selected, truncated |-> FALSE, text |-> <<>>]
  ELSE
    LET chunk == chunks[i]
        block == Block(chunk)
        separatorLength == IF Len(selected) = 0 THEN 0 ELSE Len(Separator)
        nextTotal == totalChars + separatorLength + Len(block)
    IN  IF nextTotal > cfg.maxContextChars
          THEN IF Len(selected) = 0
                 THEN [selected |-> selected, truncated |-> TRUE,
                       text |-> TruncatedFirst(cfg, chunk)]
                 ELSE [selected |-> selected, truncated |-> FALSE, text |-> <<>>]
          ELSE toContextLoop(cfg, chunks, i + 1, Append(selected, chunk), nextTotal)

\* a mutant of toContext: a first chunk over the budget is dropped, not cut
toContextSelectedOnly(cfg, chunks) ==
  LET r == toContextLoop(cfg, chunks, 1, <<>>, 0)
  IN  Join([i \in 1..Len(r.selected) |-> Block(r.selected[i])], Separator)

\* toContext
toContext(cfg, chunks) ==
  LET r == toContextLoop(cfg, chunks, 1, <<>>, 0)
  IN  IF r.truncated THEN r.text
      ELSE Join([i \in 1..Len(r.selected) |-> Block(r.selected[i])], Separator)

\* Math.round(similarity * 100) / 100
RoundTo2(similarity) == ((similarity + 5) \div 10) * 10

\* `${chunk.filename}:${chunk.page_number}`
SourceKey(chunk) == chunk.filename \o <<":">> \o NumberToString(chunk.page_number)

RetrievalSource(chunk) ==
  [filename |-> chunk.filename, page |-> chunk.page_number,
   similarity |-> RoundTo2(chunk.similarity), document_id |-> chunk.document_id]

\* a mutant of IsEligible: every chunk is eligible
IsEligibleAlways(cfg, chunk) == TRUE

\* line 344: chunk.similarity < ragConfig.minSourceSimilarity is skipped
IsEligible(cfg, chunk) == ~(chunk.similarity < cfg.minSourceSimilarity)

\* a mutant of AlreadySeen: no deduplication
AlreadySeenNever(seen, chunk) == FALSE

\* line 347: seen.has(key)
AlreadySeen(seen, chunk) == SourceKey(chunk) \in seen

\* the for loop of buildSources from chunk i on
RECURSIVE buildSourcesLoop(_, _, _, _, _)
buildSourcesLoop(cfg, chunks, i, seen, result) ==
  IF i > Len(chunks) THEN result
  ELSE
    LET chunk == chunks[i]
    IN  IF ~IsEligible(cfg, chunk) THEN buildSourcesLoop(cfg, chunks, i + 1, seen, result)
        ELSE IF AlreadySeen(seen, chunk) THEN buildSourcesLoop(cfg, chunks, i + 1, seen, result)
        ELSE buildSourcesLoop(cfg, chunks, i + 1, seen \cup {SourceKey(chunk)},
                              Append(result, RetrievalSource(chunk)))

\* a mutant of buildSources: only the chunks selected for the context are cited
buildSourcesOfContext(cfg, chunks) ==
  buildSourcesLoop(cfg, toContextLoop(cfg, chunks, 1, <<>>, 0).selected, 1, {}, <<>>)

\* buildSources
buildSources(cfg, chunks) == buildSourcesLoop(cfg, chunks, 1, {}, <<>>)

-----------------------------------------------------------------------------
(* Inputs of toContext and buildSources *)

Rep(c, n) == [i \in 1..n |-> c]

WithEnv(name, raw) == [NoEnv EXCEPT ![name] = raw]

\* budgets: an override below the floor (loaded as 1000 characters) and one of
\* 1200 characters, with the default limit of 14 chunks and a limit of 2
ContextConfigs ==
  { LoadRagConfig([NoEnv EXCEPT !["RAG_MAX_CONTEXT_CHARS"] = chars,
                                !["RAG_MAX_CONTEXT_CHUNKS"] = count]) :
      chars \in {EnvNumber(0), EnvNumber(1200000)}, count \in {EnvUnset, EnvNumber(2000)} }

\* admin.ts line 475: the upload route stores at most 200 characters of a name
MaxUploadedFilename == 200

\* rows the search_documents call can return: chunks whose blocks are short,
\* half the budget, exactly the budget and over it, under a short filename and
\* under the longest one the upload route stores; and a row of a document
\* whose filename, written to the table by another client than the upload
\* route, is as long as the budget
ContextChunkPool(cfg) ==
  LET a == <<"a">>
      half == Rep("x", (cfg.maxContextChars \div 2) - 16)
  IN  { RetrievedChunk("d1", a, 5, <<>>, 600),
        RetrievedChunk("d1", a, 5, <<"x">>, 600),
        RetrievedChunk("d1", a, 5, half, 600),
        RetrievedChunk("d1", a, 12, half, 600),
        RetrievedChunk("d1", a, 5, Rep("x", cfg.maxContextChars - 12), 600),
        RetrievedChunk("d1", a, 5, Rep("x", cfg.maxContextChars), 600),
        RetrievedChunk("d2", Rep("f", MaxUploadedFilename), 5,
                       Rep("x", cfg.maxContextChars), 600),
        RetrievedChunk("d3", Rep("f", cfg.maxContextChars), 5, <<"x">>, 600) }

\* citation floors: the default 0.45, 0.454 and 0 (from a negative override)
SourceConfigs ==
  { LoadRagConfig(WithEnv("RAG_MIN_SOURCE_SIMILARITY", raw)) :
      raw \in {EnvUnset, EnvNumber(454), EnvNumber(-1000)} }

\* chunks that share filename and page, differ in document or similarity, and
\* filenames and pages whose keys share a prefix
SourceChunkPool ==
  { RetrievedChunk("d1", <<"a">>, 1, <<"x">>, 600),
    RetrievedChunk("d1", <<"a">>, 1, <<"x">>, 454),
    RetrievedChunk("d1", <<"a">>, 1, <<"x">>, 0),
    RetrievedChunk("d2", <<"a">>, 1, <<"x">>, 600),
    RetrievedChunk("d1", <<"a", "1">>, 1, <<"x">>, 600),
    RetrievedChunk("d1", <<"a">>, 11, <<"x">>, 449) }

\* lines 449-450: context: toContext(chunks), sources: buildSources(chunks)
Assemble ==
  /\ ~asmDone
  /\ asmDone' = TRUE
  /\ asmContext' = toContext(ragConfig, asmChunks)
  /\ asmSources' = buildSources(ragConfig, asmChunks)
  /\ UNCHANGED <<ragConfig, asmChunks>>
  /\ UNCHANGED <<clsVars, lruVars, rtVars, gateVars, configLoaded, chunkVars, docVars>>

-----------------------------------------------------------------------------
(* rewriteQueryForRetrieval *)

\* normalized.split(/\s+/).filter(Boolean).length
WordCount(s) ==
  Cardinality({i \in DOMAIN s : ~IsWhitespace(s[i]) /\ (i = 1 \/ IsWhitespace(s[i - 1]))})

\* a mutant of shouldBypassRewriteModel: a query of three words is not too short
shouldBypassRewriteModelFromThreeWords(queryText, conversationHistory) ==
  IF Len(conversationHistory) > 0 THEN FALSE
  ELSE
    LET normalized == toLowerCase(trim(queryText))
    IN  IF normalized = <<>> THEN TRUE
        ELSE IF TestWordPattern(REWRITE_CONTEXT_DEPENDENT_PATTERN, normalized) THEN FALSE
        ELSE IF WordCount(normalized) < 3 THEN FALSE
        ELSE IF Len(normalized) > 220 THEN FALSE
        ELSE TRUE

\* lines 145-161
shouldBypassRewriteModel(queryText, conversationHistory) ==
  IF Len(conversationHistory) > 0 THEN FALSE
  ELSE
    LET normalized == toLowerCase(trim(queryText))
    IN  IF normalized = <<>> THEN TRUE
        ELSE IF TestWordPattern(REWRITE_CONTEXT_DEPENDENT_PATTERN, normalized) THEN FALSE
        ELSE IF WordCount(normalized) <= 3 THEN FALSE
        ELSE IF Len(normalized) > 220 THEN FALSE
        ELSE TRUE

\* outcomes of the completion call: it throws, or it resolves with a message
\* whose content is null or a string
RewriteThrows == [kind |-> "throw", content |-> <<>>]
RewriteNull == [kind |-> "null", content |-> <<>>]
RewriteContent(content) == [kind |-> "content", content |-> content]

\* a mutant of ContentOrQuery: no fall back to the query
ContentOnly(content, queryText) == trim(content)

\* line 205: content.trim() || queryText
ContentOrQuery(content, queryText) ==
  IF trim(content) # <<>> THEN trim(content) ELSE queryText

\* lines 205-208: what rewriteQueryForRetrieval returns after the model call
RewriteResult(outcome, queryText) ==
  IF outcome.kind = "throw" THEN queryText
  ELSE IF outcome.kind = "null" THEN queryText
  ELSE ContentOrQuery(outcome.content, queryText)

-----------------------------------------------------------------------------
(* retrieveContextForQuery *)

\* line 407: c.similarity >= 0.50
ExpansionFloor == 500

\* [...new Set(s)]: the distinct values in order of first occurrence
RECURSIVE Distinct(_)
Distinct(s) ==
  IF s = <<>> THEN <<>>
  ELSE LET front == Distinct(SubSeq(s, 1, Len(s) - 1))
           last == s[Len(s)]
       IN  IF last \in Range(front) THEN front ELSE Append(front, last)

\* lines 397-403: the rows of the search as RetrievedChunk
SearchChunks(data) ==
  [i \in 1..Len(data) |->
     RetrievedChunk(data[i].document_id, data[i].filename, data[i].page_number,
                    data[i].text, data[i].similarity)]

\* lines 407-408
ExpansionSeedChunks(cfg, chunks) ==
  LET Strong(c) == c.similarity >= ExpansionFloor
  IN  SliceTo(SelectSeq(chunks, Strong), cfg.maxVectorMatchesForExpansion)

\* line 410
DocIds(seeds) == Distinct([i \in 1..Len(seeds) |-> seeds[i].document_id])

\* line 411
PageNums(cfg, seeds) ==
  SliceTo(Distinct([i \in 1..Len(seeds) |-> seeds[i].page_number]), cfg.maxPagesForExpansion)

\* c.text.slice(0, 40)
KeyPrefix == 40

\* a mutant of MergeKey: the key holds the whole text
MergeKeyWholeText(c) ==
  <<c.document_id, ":">> \o NumberToString(c.page_number) \o <<":">> \o c.text

\* `${c.document_id}:${c.page_number}:${c.text.slice(0, 40)}`; a document id
\* is a UUID and is kept as one symbol
MergeKey(c) ==
  <<c.document_id, ":">> \o NumberToString(c.page_number) \o <<":">> \o SliceTo(c.text, KeyPrefix)

\* lines 422-434: the for loop over pageData from row i on
RECURSIVE MergeLoop(_, _, _, _)
MergeLoop(chunks, existingKeys, pageData, i) ==
  IF i > Len(pageData) THEN chunks
  ELSE
    LET pc == pageData[i]
        key == MergeKey(pc)
    IN  IF key \notin existingKeys
          THEN MergeLoop(Append(chunks, RetrievedChunk(pc.document_id, pc.filename,
                                                       pc.page_number, pc.text, 0)),
                         existingKeys \cup {key}, pageData, i + 1)
          ELSE MergeLoop(chunks, existingKeys, pageData, i + 1)

\* a mutant of ComesBefore: the page number does not break ties
ComesBeforeBySimilarity(a, b) == a.similarity > b.similarity

\* line 436: (a, b) => b.similarity - a.similarity || a.page_number - b.page_number
ComesBefore(a, b) ==
  \/ a.similarity > b.similarity
  \/ a.similarity = b.similarity /\ a.page_number < b.page_number

\* Array.prototype.sort is stable: x goes before the first element it comes before
InsertSorted(sorted, x) ==
  LET later == {i \in DOMAIN sorted : ComesBefore(x, sorted[i])}
      at == IF later = {} THEN Len(sorted) + 1 ELSE Min(later)
  IN  SubSeq(sorted, 1, at - 1) \o <<x>> \o SubSeq(sorted, at, Len(sorted))

RECURSIVE SortChunks(_)
SortChunks(chunks) ==
  IF chunks = <<>> THEN <<>>
  ELSE InsertSorted(SortChunks(SubSeq(chunks, 1, Len(chunks) - 1)), chunks[Len(chunks)])

\* a mutant of MergePageData: the list is sorted whether or not rows came back
MergePageDataSortAlways(chunks, pageData) ==
  SortChunks(MergeLoop(chunks, {MergeKey(chunks[i]) : i \in DOMAIN chunks}, pageData, 1))

\* lines 418-437
MergePageData(chunks, pageData) ==
  IF Len(pageData) > 0
    THEN SortChunks(MergeLoop(chunks, {MergeKey(chunks[i]) : i \in DOMAIN chunks}, pageData, 1))
    ELSE chunks

\* lines 446-451
RetrievalResult(cfg, rewrittenQuery, chunks) ==
  [rewrittenQuery |-> rewrittenQuery, chunks |-> chunks,
   context |-> toContext(cfg, chunks), sources |-> buildSources(cfg, chunks)]

NoResult == [rewrittenQuery |-> <<>>, chunks |-> <<>>, context |-> <<>>, sources |-> <<>>]

\* embeddingResponse.data[0].embedding: a vector computed from input; the
\* capability may answer the same input with vectors that differ
Embedding(input, vector) == [input |-> input, vector |-> vector]

NoEmbedding == Embedding(<<>>, "none")

\* the state of a call between two of its steps: the locals that are read
\* again (queryText and conversationHistory are not once the rewrite is over,
\* queryEmbedding is not once the search is)
RetrieveCall(pc, queryText, history, rewrittenQuery, queryEmbedding, chunks, failed) ==
  [pc |-> pc, queryText |-> queryText, conversationHistory |-> history,
   rewrittenQuery |-> rewrittenQuery, queryEmbedding |-> queryEmbedding,
   chunks |-> chunks, failed |-> failed]

Rewritten(rewrittenQuery, failed) ==
  RetrieveCall("lookup", <<>>, <<>>, rewrittenQuery, NoEmbedding, <<>>, failed)

NoRewrite ==
  [done |-> FALSE, queryText |-> <<>>, conversationHistory |-> <<>>, called |-> FALSE,
   outcome |-> RewriteNull, result |-> <<>>]

RewriteOf(queryText, history, called, outcome, result) ==
  [done |-> TRUE, queryText |-> queryText, conversationHistory |-> history,
   called |-> called, outcome |-> outcome, result |-> result]

\* the get_chunks_by_pages call of a retrieveContextForQuery call: whether it
\* was issued, its arguments, and what it answered
NoFetch ==
  [issued |-> FALSE, docIds |-> <<>>, pageNums |-> <<>>, error |-> FALSE, data |-> <<>>]

FetchOf(docIds, pageNums, outcome) ==
  [issued |-> TRUE, docIds |-> docIds, pageNums |-> pageNums,
   error |-> outcome.error, data |-> outcome.data]

\* how a call ended, with the chunks of its search (primary) and its page fetch
NoRetrieveReturn ==
  [kind |-> "none", failed |-> {}, primary |-> <<>>, fetch |-> NoFetch, result |-> NoResult]

RetrieveReturned(call, primary, fetch, result) ==
  [kind |-> "returned", failed |-> call.failed, primary |-> primary, fetch |-> fetch,
   result |-> result]

RetrieveRaised(call) ==
  [kind |-> "raised", failed |-> call.failed, primary |-> <<>>, fetch |-> NoFetch,
   result |-> NoResult]

-----------------------------------------------------------------------------
(* Inputs and capabilities of retrieveContextForQuery *)

\* queries the callers pass (trimmed message texts): the empty one and one of
\* four words, which go to the embedding as they are, and one of three words,
\* which the model rewrites
RetrieveQueries ==
  { <<>>,
    <<"a", " ", "b", " ", "c", " ", "d">>,
    <<"a", " ", "b", " ", "c">> }

Message(role, content) == [role |-> role, content |-> content]

\* queries for rewriteQueryForRetrieval alone: the same, a whitespace-only
\* one, one with a context-dependent word, one of 221 characters and one of
\* 220 characters and a trailing blank
RewriteQueries ==
  RetrieveQueries \cup
    { <<" ">>,
      <<"a", " ", "b", " ", "c", " ", "I", "t">>,
      <<"a", " ", "b", " ", "c", " ">> \o Rep("d", 215),
      <<"a", " ", "b", " ", "c", " ">> \o Rep("d", 214) \o <<" ">> }

\* no history, one message, and five (more than the four that are sent)
RewriteHistories ==
  { <<>>, <<Message("user", <<"h">>)>>,
    [i \in 1..5 |-> Message(IF i % 2 = 1 THEN "user" ELSE "assistant", <<"h">>)] }

\* the model throws, or answers with no content, the empty string, whitespace
\* or a query in whitespace
RewriteOutcomes ==
  { RewriteThrows, RewriteNull,
    RewriteContent(<<>>), RewriteContent(<<" ", "\n">>),
    RewriteContent(<<" ", "a", " ", "b", " ", "c", " ", "d", "\n">>) }

RetrieveHistories == { <<>>, <<Message("user", <<"h">>)>> }

\* the rewrite model fails, or rewrites to the four-word query
RetrieveRewriteOutcomes ==
  { RewriteThrows,
    RewriteContent(<<" ", "a", " ", "b", " ", "c", " ", "d", "\n">>) }

\* the embedding call throws or resolves with a vector
EmbeddingVectors == {"v1", "v2"}

EmbedOutcomes(input) ==
  {[throws |-> TRUE, embedding |-> NoEmbedding]}
    \cup {[throws |-> FALSE, embedding |-> Embedding(input, v)] : v \in EmbeddingVectors}

\* the rows of document_chunks joined with documents
StoredChunk(documentId, filename, pageNumber, text) ==
  [document_id |-> documentId, filename |-> filename, page_number |-> pageNumber, text |-> text]

\* the two chunks of page 1 of d1 open with the same KeyPrefix characters
StoredChunks ==
  << StoredChunk("d1", <<"a">>, 1, Rep("p", KeyPrefix) \o <<"x">>),
     StoredChunk("d1", <<"a">>, 1, Rep("p", KeyPrefix) \o <<"y">>),
     StoredChunk("d1", <<"a">>, 2, <<"z">>),
     StoredChunk("d2", <<"b">>, 1, <<"w">>),
     StoredChunk("d2", <<"b">>, 2, <<"u">>) >>

Match(i, similarity) ==
  [document_id |-> StoredChunks[i].document_id, filename |-> StoredChunks[i].filename,
   page_number |-> StoredChunks[i].page_number, text |-> StoredChunks[i].text,
   similarity |-> similarity]

\* what search_documents returns: an error, or rows by descending similarity
SearchData ==
  { <<>>,
    <<Match(3, 480)>>,
    <<Match(4, 700), Match(1, 600), Match(3, 450)>>,
    <<Match(3, 550), Match(4, 520)>> }

SearchOutcomes == {[error |-> TRUE, data |-> <<>>]}
                    \cup {[error |-> FALSE, data |-> d] : d \in SearchData}

\* what get_chunks_by_pages returns for the ids and pages it is passed
PageRows(docIds, pageNums) ==
  LET OnPages(r) == r.document_id \in Range(docIds) /\ r.page_number \in Range(pageNums)
  IN  SelectSeq(StoredChunks, OnPages)

PageOutcomes(docIds, pageNums) ==
  { [error |-> TRUE, data |-> <<>>],
    [error |-> FALSE, data |-> <<>>],
    [error |-> FALSE, data |-> PageRows(docIds, pageNums)] }

\* similarities of a match: above, at and below the expansion floor
SimilarityLevels == {700, 500, 450}

\* the results of n rows search_documents can return: distinct rows, by
\* descending similarity, rows of equal similarity in any order
MatchLists(n) ==
  { [i \in 1..n |-> Match(rows[i], similarities[i])] :
      rows \in {r \in [1..n -> DOMAIN StoredChunks] :
                  \A i, j \in 1..n : r[i] = r[j] => i = j},
      similarities \in {m \in [1..n -> SimilarityLevels] :
                          \A i, j \in 1..n : i < j => m[i] >= m[j]} }

\* Array.prototype.reverse
Reverse(s) == [i \in 1..Len(s) |-> s[Len(s) + 1 - i]]

\* get_chunks_by_pages gives no order: the rows of the pages in table order
\* or in the opposite order
ExpandPageOutcomes(docIds, pageNums) ==
  PageOutcomes(docIds, pageNums)
    \cup {[error |-> FALSE, data |-> Reverse(PageRows(docIds, pageNums))]}

\* caps on seed chunks and on pages: 6 and 6 (the defaults), 1 and 1, 2 and
\* 1, 6 and 1, under the default citation floor; and the default caps under
\* RAG_MIN_SOURCE_SIMILARITY=0
ExpandConfigs ==
  { LoadRagConfig([NoEnv EXCEPT !["RAG_MAX_VECTOR_MATCHES_FOR_EXPANSION"] = raw[1],
                                !["RAG_MAX_PAGES_FOR_EXPANSION"] = raw[2],
                                !["RAG_MIN_SOURCE_SIMILARITY"] = raw[3]]) :
      raw \in { <<EnvUnset, EnvUnset, EnvUnset>>,
                <<EnvNumber(1000), EnvNumber(1000), EnvUnset>>,
                <<EnvNumber(2000), EnvNumber(1000), EnvUnset>>,
                <<EnvUnset, EnvNumber(1000), EnvUnset>>,
                <<EnvUnset, EnvUnset, EnvNumber(0)>> } }

\* the expansion caps: the defaults of 6 and 6, and 1 and 1
RetrieveConfigs ==
  { LoadRagConfig([NoEnv EXCEPT !["RAG_MAX_VECTOR_MATCHES_FOR_EXPANSION"] = cap,
                                !["RAG_MAX_PAGES_FOR_EXPANSION"] = cap]) :
      cap \in {EnvUnset, EnvNumber(1000)} }

\* shouldBypassRewriteModel on the queries and histories above
BypassRewrite ==
  [q \in RewriteQueries |-> [h \in RewriteHistories |-> shouldBypassRewriteModel(q, h)]]

-----------------------------------------------------------------------------
(* Steps of retrieveContextForQuery, one between two awaits *)

InFlight(pc) == {call \in BagToSet(rtCalls) : call.pc = pc}

Replace(call, next) == (rtCalls (-) SetToBag({call})) (+) SetToBag({next})

Remove(call) == rtCalls (-) SetToBag({call})

\* a mutant of SearchFailed: the error of the search is ignored
SearchFailedNever(outcome) == FALSE

\* line 395: if (error) throw error
SearchFailed(outcome) == outcome.error

\* lines 367-368 and 172-174: the call starts; rewriteQueryForRetrieval returns
\* the query as it is, or awaits the model
RetrieveBegin(queryText, history) ==
  /\ rtStarted < MaxRetrieveCalls
  /\ rtStarted' = rtStarted + 1
  /\ IF BypassRewrite[queryText][history]
       THEN /\ rtCalls' = rtCalls (+) SetToBag({Rewritten(queryText, {})})
            /\ rtRewrite' = RewriteOf(queryText, history, FALSE, RewriteNull, queryText)
       ELSE /\ rtCalls' = rtCalls (+) SetToBag({RetrieveCall("rewrite", queryText, history,
                                                             <<>>, NoEmbedding, <<>>, {})})
            /\ rtRewrite' = NoRewrite
  /\ rtRet' = NoRetrieveReturn
  /\ UNCHANGED <<clsVars, lruVars, asmVars, gateVars, configLoaded, chunkVars, docVars>>

\* lines 198-208: the completion call of rewriteQueryForRetrieval settles
RewriteResume(call, outcome) ==
  /\ call \in InFlight("rewrite")
  /\ LET result == RewriteResult(outcome, call.queryText)
         failed == IF outcome.kind = "throw" THEN {"rewrite"} ELSE {}
     IN  /\ rtCalls' = Replace(call, Rewritten(result, failed))
         /\ rtRewrite' = RewriteOf(call.queryText, call.conversationHistory, TRUE, outcome, result)
  /\ rtRet' = NoRetrieveReturn
  /\ UNCHANGED <<rtStarted, clsVars, lruVars, asmVars, gateVars, configLoaded, chunkVars, docVars>>

\* a mutant of EmbedLookup: the embedding call is issued whatever the cache holds
EmbedLookupAlwaysEmbeds(call) ==
  /\ call \in InFlight("lookup")
  /\ rtCalls' = Replace(call, [call EXCEPT !.pc = "embed"])
  /\ rtRewrite' = NoRewrite
  /\ rtRet' = NoRetrieveReturn
  /\ UNCHANGED <<rtStarted, clsVars, lruVars, asmVars, gateVars, configLoaded, chunkVars, docVars>>

\* lines 373-378: the embedding cache is read; on a miss the embedding call is issued
EmbedLookup(call) ==
  /\ call \in InFlight("lookup")
  /\ LET cachedEmbedding == LRUGet(embeddingCache, call.rewrittenQuery)
     IN  /\ embeddingCache' = cachedEmbedding.cache
         /\ lruRecent' = IF cachedEmbedding.hit
                            THEN Touched(lruRecent, call.rewrittenQuery, embeddingCache.maxSize)
                            ELSE lruRecent
         /\ IF cachedEmbedding.hit
              THEN rtCalls' = Replace(call, [call EXCEPT !.pc = "search",
                                                         !.queryEmbedding = cachedEmbedding.value])
              ELSE rtCalls' = Replace(call, [call EXCEPT !.pc = "embed"])
  /\ rtRewrite' = NoRewrite
  /\ rtRet' = NoRetrieveReturn
  /\ UNCHANGED <<rtStarted, clsVars, lruClock, lruAccess, lruLast, asmVars, gateVars, configLoaded, chunkVars, docVars>>

\* a mutant of EmbedResume: the embedding is used and not stored
EmbedResumeWithoutStore(call, outcome) ==
  /\ call \in InFlight("embed")
  /\ IF outcome.throws
       THEN /\ rtCalls' = Remove(call)
            /\ rtRet' = RetrieveRaised([call EXCEPT !.failed = @ \cup {"embed"}])
       ELSE /\ rtCalls' = Replace(call, [call EXCEPT !.pc = "search",
                                                     !.queryEmbedding = outcome.embedding])
            /\ rtRet' = NoRetrieveReturn
  /\ rtRewrite' = NoRewrite
  /\ UNCHANGED <<rtStarted, clsVars, lruVars, asmVars, gateVars, configLoaded, chunkVars, docVars>>

\* lines 378-393: the embedding call settles; a rejection is not caught
EmbedResume(call, outcome) ==
  /\ call \in InFlight("embed")
  /\ IF outcome.throws
       THEN /\ rtCalls' = Remove(call)
            /\ rtRet' = RetrieveRaised([call EXCEPT !.failed = @ \cup {"embed"}])
            /\ UNCHANGED <<embeddingCache, lruRecent>>
       ELSE /\ embeddingCache' = LRUSet(embeddingCache, call.rewrittenQuery, outcome.embedding)
            /\ lruRecent' = Touched(lruRecent, call.rewrittenQuery, embeddingCache.maxSize)
            /\ rtCalls' = Replace(call, [call EXCEPT !.pc = "search",
                                                     !.queryEmbedding = outcome.embedding])
            /\ rtRet' = NoRetrieveReturn
  /\ rtRewrite' = NoRewrite
  /\ UNCHANGED <<rtStarted, clsVars, lruClock, lruAccess, lruLast, asmVars, gateVars, configLoaded, chunkVars, docVars>>

\* lines 388-416 and 440-451: the search settles; its error is thrown, else
\* the page fetch is issued for the seed chunks, or the result is returned
SearchResume(call, outcome) ==
  /\ call \in InFlight("search")
  /\ LET chunks == SearchChunks(outcome.data)
         settled == [call EXCEPT !.failed = IF outcome.error THEN @ \cup {"search"} ELSE @]
     IN  IF SearchFailed(outcome)
           THEN /\ rtCalls' = Remove(call)
                /\ rtRet' = RetrieveRaised(settled)
           ELSE IF Len(ExpansionSeedChunks(ragConfig, chunks)) > 0
             THEN /\ rtCalls' = Replace(call, [settled EXCEPT !.pc = "expand",
                                                              !.queryEmbedding = NoEmbedding,
                                                              !.chunks = chunks])
                  /\ rtRet' = NoRetrieveReturn
             ELSE /\ rtCalls' = Remove(call)
                  /\ rtRet' = RetrieveReturned(settled, chunks, NoFetch,
                                               RetrievalResult(ragConfig, call.rewrittenQuery,
                                                               chunks))
  /\ rtRewrite' = NoRewrite
  /\ UNCHANGED <<rtStarted, clsVars, lruVars, asmVars, gateVars, configLoaded, chunkVars, docVars>>

\* lines 413-451: the page fetch settles; its error is dropped
ExpandResume(call, outcome) ==
  /\ call \in InFlight("expand")
  /\ LET chunks == MergePageData(call.chunks, outcome.data)
         settled == [call EXCEPT !.failed = IF outcome.error THEN @ \cup {"expand"} ELSE @]
     IN  /\ rtCalls' = Remove(call)
         /\ rtRet' = RetrieveReturned(settled, call.chunks,
                                      FetchOf(DocIds(ExpansionSeedChunks(ragConfig, call.chunks)),
                                              PageNums(ragConfig,
                                                       ExpansionSeedChunks(ragConfig, call.chunks)),
                                              outcome),
                                      RetrievalResult(ragConfig, call.rewrittenQuery, chunks))
  /\ rtRewrite' = NoRewrite
  /\ UNCHANGED <<rtStarted, clsVars, lruVars, asmVars, gateVars, configLoaded, chunkVars, docVars>>

-----------------------------------------------------------------------------
(* The callers of the engine: router.post('/message') of chat.ts and        *)
(* handleQuery of telegram.ts.  A handler suspends at classifyQueryDomain,  *)
(* at retrieveContextForQuery, at the answer completion and at the write    *)
(* that delivers a rejection; handlers of other requests run meanwhile.     *)

MaxRequests == 2   \* chat and Telegram queries per behaviour

Platforms == {"chat", "telegram"}

\* every classification classifyQueryDomain can return: the fast path, and
\* the try/catch over every query and completion outcome (a cache hit
\* returns one of the latter)
ClassifyResults ==
  {FastPathClassification}
    \cup UNION {{e.out.result : e \in ClassifyOutcome[q]} : q \in Queries}

\* what the handler hands to res.json / sendMessage, by kind:
\* "rejectionMsg" is the fixed out-of-scope text, "answer" the processed
\* completion, "error" the 500 body or the Telegram apology, "unavailable"
\* the 404 body or the not-linked notice
GateRequest(platform, pc, classified, domain, calls, replies, usedWebFallback) ==
  [platform |-> platform, pc |-> pc, classified |-> classified, domain |-> domain,
   calls |-> calls, replies |-> replies, usedWebFallback |-> usedWebFallback]

NoGateRequest ==
  GateRequest("none", "none", FALSE, heuristicDomainClassification(<<>>), {}, <<>>, FALSE)

Handling(pc) == {r \in BagToSet(gateRequests) : r.pc = pc}

GateStep(req, next) ==
  /\ gateRequests' = (gateRequests (-) SetToBag({req})) (+) SetToBag({next})
  /\ gateDone' = NoGateRequest

GateEnd(req, last) ==
  /\ gateRequests' = gateRequests (-) SetToBag({req})
  /\ gateDone' = [last EXCEPT !.pc = "done"]

\* a mutant of DomainGateReject: is_financial is not consulted
DomainGateRejectNotInDomain(domain) == ~domain.in_domain

\* if (!domain.in_domain && !domain.is_financial)
DomainGateReject(domain) == ~domain.in_domain /\ ~domain.is_financial

\* chat.ts 186-218, telegram.ts 618-654: the session or the linked profile is
\* looked up; without it the handler answers and returns, else it reads the
\* history and calls classifyQueryDomain
GateBegin(platform, found) ==
  /\ gateStarted < MaxRequests
  /\ gateStarted' = gateStarted + 1
  /\ IF found
       THEN /\ gateRequests' =
                 gateRequests (+) SetToBag({GateRequest(platform, "classify", FALSE,
                     heuristicDomainClassification(<<>>), {"classifyQueryDomain"}, <<>>, FALSE)})
            /\ gateDone' = NoGateRequest
       ELSE /\ gateDone' = GateRequest(platform, "done", FALSE,
                               heuristicDomainClassification(<<>>), {}, <<"unavailable">>, FALSE)
            /\ UNCHANGED gateRequests
  /\ UNCHANGED <<clsVars, lruVars, asmVars, rtVars, configLoaded, chunkVars, docVars>>

\* chat.ts 218-240, telegram.ts 654-668: classifyQueryDomain has returned
\* domain; the gate either starts the delivery of the rejection or calls
\* retrieveContextForQuery
GateClassified(req, domain) ==
  /\ req.pc = "classify"
  /\ LET known == [req EXCEPT !.classified = TRUE, !.domain = domain]
     IN  IF DomainGateReject(domain)
           THEN IF req.platform = "chat"
                  THEN GateStep(req, [known EXCEPT !.pc = "save"])
                  ELSE GateStep(req, [known EXCEPT !.pc = "send",
                                                   !.replies = Append(@, "rejectionMsg")])
           ELSE GateStep(req, [known EXCEPT !.pc = "retrieve",
                                            !.calls = @ \cup {"retrieveContextForQuery"}])
  /\ UNCHANGED <<gateStarted, clsVars, lruVars, asmVars, rtVars, configLoaded, chunkVars, docVars>>

\* chat.ts 228-236: the chat_messages insert settles (its result is not
\* read) and res.json sends the rejection; telegram.ts 662-664, 827-830:
\* sendMessage settles, and when it throws the apology is sent
GateRejected(req, sent) ==
  /\ req.pc \in {"save", "send"}
  /\ IF req.platform = "chat"
       THEN GateEnd(req, [req EXCEPT !.replies = Append(@, "rejectionMsg")])
       ELSE IF sent THEN GateEnd(req, req)
            ELSE GateEnd(req, [req EXCEPT !.replies = Append(@, "error")])
  /\ UNCHANGED <<gateStarted, clsVars, lruVars, asmVars, rtVars, configLoaded, chunkVars, docVars>>

\* chat.ts 240-272, telegram.ts 668-686: retrieveContextForQuery raised, or
\* returned an empty or a non-empty context; the handler builds the prompt
\* and calls the answer completion
GateRetrieved(req, outcome) ==
  /\ req.pc = "retrieve"
  /\ IF outcome = "raised"
       THEN GateEnd(req, [req EXCEPT !.replies = Append(@, "error")])
       ELSE GateStep(req, [req EXCEPT !.pc = "complete",
                                      !.usedWebFallback = (outcome = "empty"),
                                      !.calls = @ \cup {"completion"}])
  /\ UNCHANGED <<gateStarted, clsVars, lruVars, asmVars, rtVars, configLoaded, chunkVars, docVars>>

\* chat.ts 272-346, telegram.ts 686-760: the completion settles and the
\* answer, or the error, is delivered
GateCompleted(req, ok) ==
  /\ req.pc = "complete"
  /\ GateEnd(req, [req EXCEPT !.replies = Append(@, IF ok THEN "answer" ELSE "error")])
  /\ UNCHANGED <<gateStarted, clsVars, lruVars, asmVars, rtVars, configLoaded, chunkVars, docVars>>

-----------------------------------------------------------------------------
(* Document ingestion: chunkPage and findBoundary.  Positions are 0-based    *)
(* as in the code; chunkPage's loop is taken one iteration at a time.        *)

MaxIterations == 6   \* iterations of chunkPage's while loop per behaviour

\* String.prototype.slice(start, end): a negative position counts from the end
SliceFromTo(s, start, end) ==
  LET from == IF start < 0 THEN MaxOf(Len(s) + start, 0) ELSE MinOf(start, Len(s))
      to == IF end < 0 THEN MaxOf(Len(s) + end, 0) ELSE MinOf(end, Len(s))
  IN  IF from >= to THEN <<>> ELSE SubSeq(s, from + 1, to)

\* String.prototype.lastIndexOf: -1 when sub does not occur
lastIndexOf(s, sub) ==
  LET at == {i \in 0..(Len(s) - Len(sub)) : SubSeq(s, i + 1, i + Len(sub)) = sub}
  IN  IF at = {} THEN -1 ELSE Max(at)

\* const boundaries = ['\n\n', '\n', '. ', '? ', '! ', '; ', ', ']
Boundaries ==
  << <<"\n", "\n">>, <<"\n">>, <<".", " ">>, <<"?", " ">>, <<"!", " ">>, <<";", " ">>,
     <<",", " ">> >>

\* the for loop of findBoundary from boundary k on: [best, boundaryLen]
RECURSIVE findBoundaryLoop(_, _, _, _)
findBoundaryLoop(window, k, best, boundaryLen) ==
  IF k > Len(Boundaries) THEN [best |-> best, boundaryLen |-> boundaryLen]
  ELSE LET idx == lastIndexOf(window, Boundaries[k])
       IN  IF idx > best
             THEN findBoundaryLoop(window, k + 1, idx, Len(Boundaries[k]))
             ELSE findBoundaryLoop(window, k + 1, best, boundaryLen)

\* findBoundary; MAX_CHUNK_SIZE is ragConfig.chunkSize
findBoundary(cfg, text, start, targetEnd) ==
  LET minBoundary == MaxOf(start + ((cfg.chunkSize * 6) \div 10), start + 1)
      window == SliceFromTo(text, minBoundary, targetEnd)
      found == findBoundaryLoop(window, 1, -1, 0)
  IN  IF found.best >= 0 THEN minBoundary + found.best + found.boundaryLen
      ELSE targetEnd

\* one iteration of the while loop of chunkPage from start: [yields, done, start]
chunkPageIteration(cfg, text, start) ==
  LET targetEnd == MinOf(start + cfg.chunkSize, Len(text))
      end == IF targetEnd >= Len(text) THEN targetEnd
             ELSE findBoundary(cfg, text, start, targetEnd)
      piece == trim(SliceFromTo(text, start, end))
  IN  IF Len(piece) = 0 THEN [yields |-> FALSE, done |-> FALSE, start |-> targetEnd]
      ELSE IF end >= Len(text) THEN [yields |-> TRUE, done |-> TRUE, start |-> start]
      ELSE [yields |-> TRUE, done |-> FALSE, start |-> end - cfg.chunkOverlap]

\* chunkPage is called on the page: an empty or short page ends it at once
ChunkPageBegin ==
  /\ chunkPc = "idle"
  /\ chunkPc' = IF Len(chunkText) <= ragConfig.chunkSize THEN "done" ELSE "loop"
  /\ chunkStart' = 0
  /\ UNCHANGED <<chunkText, chunkIterations>>
  /\ UNCHANGED <<clsVars, lruVars, asmVars, rtVars, gateVars, configLoaded, docVars>>

\* while (start < text.length) { ... }: the test and one run of the body
ChunkPageIterate ==
  /\ chunkPc = "loop"
  /\ chunkIterations < MaxIterations
  /\ IF chunkStart < Len(chunkText)
       THEN LET it == chunkPageIteration(ragConfig, chunkText, chunkStart)
            IN  /\ chunkPc' = IF it.done THEN "done" ELSE "loop"
                /\ chunkStart' = it.start
                /\ chunkIterations' = chunkIterations + 1
       ELSE /\ chunkPc' = "done"
            /\ UNCHANGED <<chunkStart, chunkIterations>>
  /\ UNCHANGED chunkText
  /\ UNCHANGED <<clsVars, lruVars, asmVars, rtVars, gateVars, configLoaded, docVars>>

\* RAG_CHUNK_SIZE and RAG_CHUNK_OVERLAP: unset (1500 and 300), and 300 or
\* 400 with overlaps of 50, 180, 181, 241 and 299
ChunkConfigs ==
  { LoadRagConfig([NoEnv EXCEPT !["RAG_CHUNK_SIZE"] = raw[1],
                                !["RAG_CHUNK_OVERLAP"] = raw[2]]) :
      raw \in { <<EnvUnset, EnvUnset>>,
                <<EnvNumber(300000), EnvNumber(50000)>>,
                <<EnvNumber(300000), EnvNumber(180000)>>,
                <<EnvNumber(300000), EnvNumber(181000)>>,
                <<EnvNumber(300000), EnvUnset>>,
                <<EnvNumber(400000), EnvNumber(241000)>> } }

\* page texts: empty, of one chunk, longer without a boundary, with a line
\* break right at the least boundary position, with a sentence end every
\* 100 characters, and of blanks only
PageTexts(cfg) ==
  LET least == (cfg.chunkSize * 6) \div 10
  IN  { <<>>,
        Rep("a", cfg.chunkSize),
        Rep("a", cfg.chunkSize + 100),
        Rep("a", least) \o <<"\n">> \o Rep("a", cfg.chunkSize),
        [i \in 1..(cfg.chunkSize + 250) |->
           IF i % 100 = 99 THEN "." ELSE IF i % 100 = 0 THEN " " ELSE "a"],
        Rep(" ", cfg.chunkSize + 50) }

-----------------------------------------------------------------------------
(* Reprocessing a document: POST /documents/:id/reprocess and the           *)
(* processDocument run it starts, for one document.  Every await of the      *)
(* handler and of the run is a step; the database answers between them.      *)

MaxReprocess == 2   \* reprocess requests received per behaviour

ReprocessRequest(id, pc) == [id |-> id, pc |-> pc]

ProcessRun(id, pc, outcome) == [id |-> id, pc |-> pc, outcome |-> outcome]

\* the handlers waiting at one await
Reprocessing(pc) == {req \in reprocessRequests : req.pc = pc}

\* the runs waiting at one await
Running(pc) == {run \in processRuns : run.pc = pc}

\* the request is received: the select of the document's row is sent
ReprocessArrive ==
  /\ reprocessArrived < MaxReprocess
  /\ reprocessArrived' = reprocessArrived + 1
  /\ reprocessRequests' = reprocessRequests \cup {ReprocessRequest(reprocessArrived + 1, "select")}
  /\ UNCHANGED <<docStatus, docChunks, processRuns>>
  /\ UNCHANGED <<clsVars, lruVars, asmVars, rtVars, gateVars, configLoaded, chunkVars>>

\* the row arrives: 404 without it, 409 if processing_status is 'processing',
\* else the delete of the chunks is sent
ReprocessSelected(req, found) ==
  /\ req.pc = "select"
  /\ reprocessRequests' =
       IF ~found \/ docStatus = "processing"
         THEN reprocessRequests \ {req}
         ELSE (reprocessRequests \ {req}) \cup {ReprocessRequest(req.id, "delete")}
  /\ UNCHANGED <<docStatus, docChunks, reprocessArrived, processRuns>>
  /\ UNCHANGED <<clsVars, lruVars, asmVars, rtVars, gateVars, configLoaded, chunkVars>>

\* the delete is answered: 500 on an error, else the chunks of the document
\* are gone and the update of the status to 'pending' is sent
ReprocessDeleted(req, ok) ==
  /\ req.pc = "delete"
  /\ IF ok
       THEN /\ docChunks' = {}
            /\ reprocessRequests' = (reprocessRequests \ {req}) \cup {ReprocessRequest(req.id, "reset")}
       ELSE /\ reprocessRequests' = reprocessRequests \ {req}
            /\ UNCHANGED docChunks
  /\ UNCHANGED <<docStatus, reprocessArrived, processRuns>>
  /\ UNCHANGED <<clsVars, lruVars, asmVars, rtVars, gateVars, configLoaded, chunkVars>>

\* the update is answered: 500 on an error, else the status is 'pending',
\* processDocument is called without being awaited and the request succeeds
ReprocessReset(req, ok) ==
  /\ req.pc = "reset"
  /\ reprocessRequests' = reprocessRequests \ {req}
  /\ IF ok
       THEN /\ docStatus' = "pending"
            /\ processRuns' = processRuns \cup {ProcessRun(req.id, "mark", "ready")}
       ELSE UNCHANGED <<docStatus, processRuns>>
  /\ UNCHANGED <<docChunks, reprocessArrived>>
  /\ UNCHANGED <<clsVars, lruVars, asmVars, rtVars, gateVars, configLoaded, chunkVars>>

\* updateDocumentStatus(documentId, 'processing') is answered; an error of
\* the update is logged only
ProcessMarked(run, ok) ==
  /\ run.pc = "mark"
  /\ docStatus' = IF ok THEN "processing" ELSE docStatus
  /\ processRuns' = (processRuns \ {run}) \cup {ProcessRun(run.id, "store", "ready")}
  /\ UNCHANGED <<docChunks, reprocessRequests, reprocessArrived>>
  /\ UNCHANGED <<clsVars, lruVars, asmVars, rtVars, gateVars, configLoaded, chunkVars>>

\* the download, the extraction and the batches: the chunks are stored, or
\* one of the steps throws and the catch block is entered
ProcessStored(run, ok) ==
  /\ run.pc = "store"
  /\ docChunks' = IF ok THEN docChunks \cup {run.id} ELSE docChunks
  /\ processRuns' = (processRuns \ {run}) \cup
                      {ProcessRun(run.id, "finish", IF ok THEN "ready" ELSE "failed")}
  /\ UNCHANGED <<docStatus, reprocessRequests, reprocessArrived>>
  /\ UNCHANGED <<clsVars, lruVars, asmVars, rtVars, gateVars, configLoaded, chunkVars>>

\* updateDocumentStatus(documentId, 'ready' or 'failed') is answered and the
\* run ends
ProcessFinished(run, ok) ==
  /\ run.pc = "finish"
  /\ docStatus' = IF ok THEN run.outcome ELSE docStatus
  /\ processRuns' = processRuns \ {run}
  /\ UNCHANGED <<docChunks, reprocessRequests, reprocessArrived>>
  /\ UNCHANGED <<clsVars, lruVars, asmVars, rtVars, gateVars, configLoaded, chunkVars>>

-----------------------------------------------------------------------------
(* Specifications *)

ClsInit ==
  /\ now = 0
  /\ ticks = 0
  /\ classificationCache = <<>>
  /\ clsPending = [q \in Queries |-> 0]
  /\ clsStarted = 0
  /\ clsRet = NoReturn
  /\ clsLookup = NoLookup
  /\ clsStored = <<>>

LruInit(capacities) ==
  /\ \E n \in capacities : embeddingCache = LRUCache(n)
  /\ lruClock = 0
  /\ lruAccess = <<>>
  /\ lruLast = NoLRUOp
  /\ lruRecent = <<>>

AsmIdle ==
  /\ ragConfig = DefaultRagConfig
  /\ asmChunks = <<>>
  /\ asmDone = FALSE
  /\ asmContext = <<>>
  /\ asmSources = <<>>

RtIdle ==
  /\ rtCalls = EmptyBag
  /\ rtStarted = 0
  /\ rtRewrite = NoRewrite
  /\ rtRet = NoRetrieveReturn

\* chunkPage is not running
ChunkIdle ==
  /\ chunkPc = "idle"
  /\ chunkText = <<>>
  /\ chunkStart = 0
  /\ chunkIterations = 0

\* the document is processed and nobody asks to reprocess it
DocIdle ==
  /\ docStatus = "ready"
  /\ docChunks = {0}
  /\ reprocessRequests = {}
  /\ reprocessArrived = 0
  /\ processRuns = {}

GateIdle ==
  /\ gateRequests = EmptyBag
  /\ gateStarted = 0
  /\ gateDone = NoGateRequest
  /\ configLoaded = TRUE

\* classifyQueryDomain calls of concurrent requests, and the clock
\* the conversationHistory argument of classifyQueryDomain: none, or a message
ClassifyHistories == { <<>>, <<Message("user", <<"h">>)>> }

Init == ClsInit /\ LruInit({1}) /\ AsmIdle /\ RtIdle /\ GateIdle /\ ChunkIdle /\ DocIdle

Next ==
  \/ \E q \in Queries : \E h \in ClassifyHistories : ClassifyBegin(q, h)
  \/ \E q \in Queries : \E e \in ClassifyOutcome[q] : ClassifyResume(q, e)
  \/ \E d \in {1, TTL_MS} : Tick(d)

Spec == Init /\ [][Next]_vars

\* get, set and has on one LRUCache of any capacity from 1 to MaxCapacity
InitLRU == ClsInit /\ LruInit(1..MaxCapacity) /\ AsmIdle /\ RtIdle /\ GateIdle /\ ChunkIdle /\ DocIdle

NextLRU ==
  \/ \E k \in LRUKeys : CacheGet(k)
  \/ \E k \in LRUKeys : \E v \in LRUValues : CacheSet(k, v)
  \/ \E k \in LRUKeys : CacheHas(k)

SpecLRU == InitLRU /\ [][NextLRU]_vars

\* toContext and buildSources applied to a chunk list under a loaded configuration
InitAssemble ==
  /\ ClsInit
  /\ LruInit({1})
  /\ \E n \in 0..MaxChunks :
       \/ \E cfg \in ContextConfigs :
            /\ ragConfig = cfg
            /\ asmChunks \in [1..n -> ContextChunkPool(cfg)]
       \/ \E cfg \in SourceConfigs :
            /\ ragConfig = cfg
            /\ asmChunks \in [1..n -> SourceChunkPool]
  /\ asmDone = FALSE
  /\ asmContext = <<>>
  /\ asmSources = <<>>
  /\ RtIdle
  /\ GateIdle
  /\ ChunkIdle
  /\ DocIdle

NextAssemble == Assemble

SpecAssemble == InitAssemble /\ [][NextAssemble]_vars

\* retrieveContextForQuery calls of concurrent requests, sharing the embedding cache
InitRetrieve ==
  /\ ClsInit
  /\ LruInit({1})
  /\ ragConfig \in RetrieveConfigs
  /\ asmChunks = <<>>
  /\ asmDone = FALSE
  /\ asmContext = <<>>
  /\ asmSources = <<>>
  /\ RtIdle
  /\ GateIdle
  /\ ChunkIdle
  /\ DocIdle

NextRetrieve ==
  \/ \E q \in RetrieveQueries : \E h \in RetrieveHistories : RetrieveBegin(q, h)
  \/ \E call \in InFlight("rewrite") : \E o \in RetrieveRewriteOutcomes : RewriteResume(call, o)
  \/ \E call \in InFlight("lookup") : EmbedLookup(call)
  \/ \E call \in InFlight("embed") : \E o \in EmbedOutcomes(call.rewrittenQuery) : EmbedResume(call, o)
  \/ \E call \in InFlight("search") : \E o \in SearchOutcomes : SearchResume(call, o)
  \/ \E call \in InFlight("expand") :
       \E o \in PageOutcomes(DocIds(ExpansionSeedChunks(ragConfig, call.chunks)),
                             PageNums(ragConfig, ExpansionSeedChunks(ragConfig, call.chunks))) :
         ExpandResume(call, o)

SpecRetrieve == InitRetrieve /\ [][NextRetrieve]_vars

\* one call from line 388 on: it has embedded its query and awaits the
\* search, which can return any list of up to MaxMatches rows
ExpandQuery == <<"a", " ", "b", " ", "c", " ", "d">>

InitExpand ==
  /\ ClsInit
  /\ embeddingCache = LRUSet(LRUCache(1), ExpandQuery, Embedding(ExpandQuery, "v1"))
  /\ lruClock = 0
  /\ lruAccess = <<>>
  /\ lruLast = NoLRUOp
  /\ lruRecent = <<>>
  /\ ragConfig \in ExpandConfigs
  /\ asmChunks = <<>>
  /\ asmDone = FALSE
  /\ asmContext = <<>>
  /\ asmSources = <<>>
  /\ rtCalls = SetToBag({RetrieveCall("search", <<>>, <<>>, ExpandQuery,
                                      Embedding(ExpandQuery, "v1"), <<>>, {})})
  /\ rtStarted = 1
  /\ rtRewrite = NoRewrite
  /\ rtRet = NoRetrieveReturn
  /\ GateIdle
  /\ ChunkIdle
  /\ DocIdle

NextExpand ==
  \/ \E call \in InFlight("search") :
       \/ SearchResume(call, [error |-> TRUE, data |-> <<>>])
       \/ \E n \in 0..MaxMatches : \E d \in MatchLists(n) :
            SearchResume(call, [error |-> FALSE, data |-> d])
  \/ \E call \in InFlight("expand") :
       \E o \in ExpandPageOutcomes(DocIds(ExpansionSeedChunks(ragConfig, call.chunks)),
                                   PageNums(ragConfig,
                                            ExpansionSeedChunks(ragConfig, call.chunks))) :
         ExpandResume(call, o)

SpecExpand == InitExpand /\ [][NextExpand]_vars

\* the calls up to line 368: rewriteQueryForRetrieval on any query and history
InitRewrite == ClsInit /\ LruInit({1}) /\ AsmIdle /\ RtIdle /\ GateIdle /\ ChunkIdle /\ DocIdle

NextRewrite ==
  \/ \E q \in RewriteQueries : \E h \in RewriteHistories : RetrieveBegin(q, h)
  \/ \E call \in InFlight("rewrite") : \E o \in RewriteOutcomes : RewriteResume(call, o)

SpecRewrite == InitRewrite /\ [][NextRewrite]_vars

\* chat and Telegram queries handled concurrently, for every classification
\* classifyQueryDomain can return and every way the later calls can end
InitGate == ClsInit /\ LruInit({1}) /\ AsmIdle /\ RtIdle /\ GateIdle /\ ChunkIdle /\ DocIdle

NextGate ==
  \/ \E p \in Platforms : \E found \in BOOLEAN : GateBegin(p, found)
  \/ \E req \in Handling("classify") : \E d \in ClassifyResults : GateClassified(req, d)
  \/ \E req \in Handling("save") \cup Handling("send") : \E sent \in BOOLEAN : GateRejected(req, sent)
  \/ \E req \in Handling("retrieve") : \E o \in {"raised", "empty", "context"} : GateRetrieved(req, o)
  \/ \E req \in Handling("complete") : \E ok \in BOOLEAN : GateCompleted(req, ok)

SpecGate == InitGate /\ [][NextGate]_vars

\* the start of the process under every environment that sets up to
\* MaxOverrides of the variables
InitConfig ==
  /\ ClsInit /\ LruInit({1}) /\ AsmIdle /\ RtIdle
  /\ gateRequests = EmptyBag
  /\ gateStarted = 0
  /\ gateDone = NoGateRequest
  /\ configLoaded = FALSE
  /\ ChunkIdle
  /\ DocIdle

NextConfig ==
  \E names \in {n \in SUBSET EnvNames : Cardinality(n) <= MaxOverrides} :
    \E values \in [names -> EnvOverrides] : LoadConfig(EnvWith(names, values))

SpecConfig == InitConfig /\ [][NextConfig]_vars

\* chunkPage on one page, under a chunk size and an overlap the loader gives
InitChunk ==
  /\ ClsInit /\ LruInit({1}) /\ RtIdle /\ GateIdle /\ DocIdle
  /\ ragConfig \in ChunkConfigs
  /\ asmChunks = <<>>
  /\ asmDone = FALSE
  /\ asmContext = <<>>
  /\ asmSources = <<>>
  /\ chunkPc = "idle"
  /\ chunkText \in PageTexts(ragConfig)
  /\ chunkStart = 0
  /\ chunkIterations = 0

NextChunk ==
  \/ ChunkPageBegin
  \/ ChunkPageIterate

SpecChunk == InitChunk /\ [][NextChunk]_vars

\* reprocess requests for a document that has been processed
InitReprocess == ClsInit /\ LruInit({1}) /\ AsmIdle /\ RtIdle /\ GateIdle /\ ChunkIdle /\ DocIdle

NextReprocess ==
  \/ ReprocessArrive
  \/ \E req \in Reprocessing("select") : \E found \in BOOLEAN : ReprocessSelected(req, found)
  \/ \E req \in Reprocessing("delete") : \E ok \in BOOLEAN : ReprocessDeleted(req, ok)
  \/ \E req \in Reprocessing("reset") : \E ok \in BOOLEAN : ReprocessReset(req, ok)
  \/ \E run \in Running("mark") : \E ok \in BOOLEAN : ProcessMarked(run, ok)
  \/ \E run \in Running("store") : \E ok \in BOOLEAN : ProcessStored(run, ok)
  \/ \E run \in Running("finish") : \E ok \in BOOLEAN : ProcessFinished(run, ok)

SpecReprocess == InitReprocess /\ [][NextReprocess]_vars

-----------------------------------------------------------------------------
(* Claims about classifyQueryDomain and the classification cache *)

Rejects(c) == ~c.in_domain /\ ~c.is_financial

\* C1: a query without the clear off-topic lexical signal is never returned as
\* in_domain = FALSE with is_financial = FALSE, whether the answer comes from
\* the model, the safety override, the fast path or the cache.
C1_ClassifierSafety ==
  (clsRet.kind = "returned" /\ ~OffTopicSignal[clsRet.query])
    => ~Rejects(clsRet.result)

\* the override was applied by an earlier call and a later call with another
\* spelling of the query gets it from the cache
C1_Witness ==
  /\ clsRet.kind = "returned"
  /\ clsRet.via = "cache"
  /\ ~OffTopicSignal[clsRet.query]
  /\ clsRet.result.reason = "safety-override"

\* C2 as claimed: a lookup of a key stored at t0 hits with the stored result
\* when t < t0 + TTL and misses when t >= t0 + TTL.
C2_TTLExclusive ==
  (clsLookup.done /\ clsLookup.key \in DOMAIN clsStored)
    => LET st == clsStored[clsLookup.key]
       IN  /\ clsLookup.at < st.at + TTL_MS
                => (clsLookup.hit /\ clsLookup.result = st.result)
           /\ clsLookup.at >= st.at + TTL_MS => ~clsLookup.hit

\* C2 amended: the entry is still returned at t = t0 + TTL; a lookup hits with
\* the stored result when t <= t0 + TTL and misses when t > t0 + TTL.
C2_TTLInclusive ==
  (clsLookup.done /\ clsLookup.key \in DOMAIN clsStored)
    => LET st == clsStored[clsLookup.key]
       IN  /\ clsLookup.at <= st.at + TTL_MS
                => (clsLookup.hit /\ clsLookup.result = st.result)
           /\ clsLookup.at > st.at + TTL_MS => ~clsLookup.hit

\* a lookup exactly TTL after the store, and it hits
C2_Witness ==
  /\ clsLookup.done
  /\ clsLookup.key \in DOMAIN clsStored
  /\ clsLookup.at = clsStored[clsLookup.key].at + TTL_MS
  /\ clsLookup.hit

\* C7: a query with the clear off-topic signal that the model classifies as
\* in_domain = FALSE, is_financial = FALSE is returned as such (calls answered
\* from the cache aside, where the model is not the source of the answer).
C7_OffTopicRejectionKept ==
  (/\ clsRet.kind = "returned"
   /\ clsRet.via # "cache"
   /\ OffTopicSignal[clsRet.query]
   /\ clsRet.model = "off-topic")
    => Rejects(clsRet.result)

\* C8: classifyQueryDomain never raises, and when the completion call throws,
\* has no content, or its content does not parse to an object with a boolean
\* in_domain, the call returns in_domain = TRUE, is_financial = TRUE.
C8_NeverRaises ==
  clsRet.kind = "returned"
    => /\ ~clsRet.raised
       /\ (clsRet.via = "model" /\ clsRet.model = "none")
            => (clsRet.result.in_domain /\ clsRet.result.is_financial)

\* a call whose completion failed returned the conservative default
C8_Witness ==
  /\ clsRet.kind = "returned"
  /\ clsRet.via = "model"
  /\ clsRet.model = "none"
  /\ clsRet.result = heuristicDomainClassification(clsRet.query)

\* the queries whose lowercased text contains a fast-path keyword
HasFastPathTerm ==
  {q \in Queries : \E t \in DOMAIN FINANCIAL_FAST_PATH_TERMS :
                     includes(toLowerCase(q), FINANCIAL_FAST_PATH_TERMS[t])}

StoredUnderNormalizedKey(cache, query, result, t) ==
  LET key == trim(toLowerCase(query))
  IN  /\ key \in DOMAIN cache
      /\ cache[key] = [result |-> result, expiresAt |-> t + TTL_MS]

\* C18 as claimed: every call that gets past the fast path and the cache
\* check stores the classification it returns under the normalized query.
C18_EveryResultCached ==
  [][(clsRet'.kind = "returned" /\ clsRet'.via = "model")
       => StoredUnderNormalizedKey(classificationCache', clsRet'.query,
                                   clsRet'.result, now')]_vars

\* C18 amended: a call that gets past the fast path and the cache check
\* stores the classification it returns under the normalized query when the
\* model's answer parses to an object with a boolean in_domain; when the
\* call returns the heuristic default instead (the model call failed, or its
\* answer has no content or is unusable) it leaves the cache as it was.
C18_ModelResultCached ==
  [][(clsRet'.kind = "returned" /\ clsRet'.via = "model")
       => IF clsRet'.model # "none"
            THEN StoredUnderNormalizedKey(classificationCache', clsRet'.query,
                                          clsRet'.result, now')
            ELSE classificationCache' = classificationCache]_vars

\* the model's answer for a query typed with a space and capitals was stored
\* under the lowercased, trimmed text
C18_Witness ==
  /\ clsRet.kind = "returned"
  /\ clsRet.via = "model"
  /\ clsRet.model # "none"
  /\ clsRet.query # trim(toLowerCase(clsRet.query))
  /\ StoredUnderNormalizedKey(classificationCache, clsRet.query, clsRet.result, now)

-----------------------------------------------------------------------------
(* Claims about LRUCache *)

\* C3: an LRUCache of capacity N >= 1 never holds more than N entries, and a
\* set of a key that is not in a full cache removes exactly the key whose last
\* access (get hit or set) is oldest and leaves N entries.
C3_LRUBound ==
  /\ Len(embeddingCache.map) <= embeddingCache.maxSize
  /\ (/\ lruLast.op = "set"
      /\ lruLast.key \notin lruLast.keysBefore
      /\ Cardinality(lruLast.keysBefore) = embeddingCache.maxSize)
       => /\ MapKeys(embeddingCache.map)
               = (lruLast.keysBefore \ {lruLast.oldest}) \cup {lruLast.key}
          /\ Len(embeddingCache.map) = embeddingCache.maxSize

\* a set evicted a key that was not the first one inserted: an earlier get
\* had refreshed the first
C3_Witness ==
  /\ lruLast.op = "set"
  /\ lruLast.key \notin lruLast.keysBefore
  /\ Cardinality(lruLast.keysBefore) = embeddingCache.maxSize
  /\ embeddingCache.maxSize >= 2
  /\ lruLast.oldest \notin MapKeys(embeddingCache.map)
  /\ \E k \in MapKeys(embeddingCache.map) \ {lruLast.key} : k < lruLast.oldest

-----------------------------------------------------------------------------
(* Claims about toContext and buildSources *)

\* C4 as claimed: the string toContext returns is never longer than
\* maxContextChars, whatever the filename and text lengths, also when the
\* first chunk alone is over the budget and is truncated.
C4_ContextWithinBudget ==
  asmDone => Len(asmContext) <= ragConfig.maxContextChars

\* C4 amended: the string toContext returns is never longer than
\* maxContextChars when the header of the first chunk fits the budget (as it
\* does for every filename the upload route stores), also when the first chunk
\* is truncated; when that header alone is longer than the budget, the result
\* is no longer than the header.
C4_ContextWithinBudgetOrHeader ==
  asmDone =>
    /\ (asmChunks # <<>> /\ Len(Header(asmChunks[1])) > ragConfig.maxContextChars)
         => Len(asmContext) <= Len(Header(asmChunks[1]))
    /\ (asmChunks = <<>> \/ Len(Header(asmChunks[1])) <= ragConfig.maxContextChars)
         => Len(asmContext) <= ragConfig.maxContextChars

\* the first chunk, under the longest stored filename, is alone over the
\* budget and is cut to exactly the budget
C4_Witness ==
  /\ asmDone
  /\ asmChunks # <<>>
  /\ Len(asmChunks[1].filename) = MaxUploadedFilename
  /\ Len(Block(asmChunks[1])) > ragConfig.maxContextChars
  /\ Len(asmContext) = ragConfig.maxContextChars
  /\ asmContext = SliceTo(Block(asmChunks[1]), ragConfig.maxContextChars)

SamePage(x, filename, page) == x.filename = filename /\ x.page_number = page

\* C5: buildSources returns no two entries with the same (filename, page),
\* and each entry is built from the first chunk, in list order, that has the
\* pair and whose similarity is at least minSourceSimilarity.
C5_SourcesDeduplicated ==
  asmDone =>
    /\ \A i, j \in DOMAIN asmSources :
         (asmSources[i].filename = asmSources[j].filename
            /\ asmSources[i].page = asmSources[j].page) => i = j
    /\ \A i \in DOMAIN asmSources :
         LET src == asmSources[i]
             first == {k \in DOMAIN asmChunks :
                         /\ SamePage(asmChunks[k], src.filename, src.page)
                         /\ asmChunks[k].similarity >= ragConfig.minSourceSimilarity}
         IN  /\ first # {}
             /\ src.document_id = asmChunks[Min(first)].document_id
             /\ src.similarity = RoundTo2(asmChunks[Min(first)].similarity)

\* an eligible chunk was dropped as a duplicate of an earlier one from another
\* document, after a chunk of the same page that was not eligible
C5_Witness ==
  /\ asmDone
  /\ Len(asmChunks) = 3
  /\ \A k \in DOMAIN asmChunks : SamePage(asmChunks[k], <<"a">>, 1)
  /\ asmChunks[1].similarity < ragConfig.minSourceSimilarity
  /\ asmChunks[2].similarity >= ragConfig.minSourceSimilarity
  /\ asmChunks[3].similarity >= ragConfig.minSourceSimilarity
  /\ asmChunks[2].document_id # asmChunks[3].document_id
  /\ Len(asmSources) = 1

\* C6 as claimed: no entry has a similarity field, the value rounded to two
\* decimals, below minSourceSimilarity.
C6_RoundedAboveFloor ==
  asmDone => \A i \in DOMAIN asmSources :
               asmSources[i].similarity >= ragConfig.minSourceSimilarity

\* C6 amended: every entry is built from a chunk whose unrounded similarity is
\* at least minSourceSimilarity, and its rounded similarity field is at most
\* 0.005 below minSourceSimilarity.
C6_UnroundedAboveFloor ==
  asmDone => \A i \in DOMAIN asmSources :
               /\ \E k \in DOMAIN asmChunks :
                    /\ SamePage(asmChunks[k], asmSources[i].filename, asmSources[i].page)
                    /\ asmChunks[k].document_id = asmSources[i].document_id
                    /\ asmChunks[k].similarity >= ragConfig.minSourceSimilarity
                    /\ asmSources[i].similarity = RoundTo2(asmChunks[k].similarity)
               /\ asmSources[i].similarity + 5 >= ragConfig.minSourceSimilarity

\* an entry whose rounded similarity is below the floor its chunk meets, next
\* to a chunk below the floor that got no entry
C6_Witness ==
  /\ asmDone
  /\ \E i \in DOMAIN asmSources : asmSources[i].similarity < ragConfig.minSourceSimilarity
  /\ \E k \in DOMAIN asmChunks :
       /\ asmChunks[k].similarity < ragConfig.minSourceSimilarity
       /\ \A i \in DOMAIN asmSources :
            ~SamePage(asmChunks[k], asmSources[i].filename, asmSources[i].page)

-----------------------------------------------------------------------------
(* Claims about rewriteQueryForRetrieval and retrieveContextForQuery *)

\* C9 as claimed: rewriteQueryForRetrieval returns a non-empty string for every
\* query (the empty one included), every history and every model outcome.
C9_RewriteNonEmpty ==
  rtRewrite.done => rtRewrite.result # <<>>

\* C9 amended: for every non-empty query (the whitespace-only one included),
\* every history and every model outcome, rewriteQueryForRetrieval returns a
\* non-empty string: the trimmed model output when that is non-empty, the
\* query itself otherwise; for the empty query it can return the empty string.
C9_RewriteNonEmptyForNonEmptyQuery ==
  (rtRewrite.done /\ rtRewrite.queryText # <<>>)
    => /\ rtRewrite.result # <<>>
       /\ \/ rtRewrite.result = rtRewrite.queryText
          \/ /\ rtRewrite.called
             /\ rtRewrite.outcome.kind = "content"
             /\ rtRewrite.result = trim(rtRewrite.outcome.content)

\* the model answered a non-empty query with whitespace only and the query
\* itself was returned
C9_Witness ==
  /\ rtRewrite.done
  /\ rtRewrite.called
  /\ rtRewrite.queryText # <<>>
  /\ rtRewrite.outcome.kind = "content"
  /\ rtRewrite.outcome.content # <<>>
  /\ trim(rtRewrite.outcome.content) = <<>>
  /\ rtRewrite.result = rtRewrite.queryText

\* C10 as claimed: retrieveContextForQuery raises if and only if the
\* similarity search reports an error; a failure of the rewrite model, of the
\* embedding call or of the page fetch still ends in a returned result.
C10_RaisesOnlyOnSearchError ==
  rtRet.kind # "none"
    => (rtRet.kind = "raised" <=> "search" \in rtRet.failed)

\* C10 amended: retrieveContextForQuery raises if and only if the embedding
\* call (made on a cache miss) fails or the similarity search reports an
\* error; a failure of the rewrite model or of the page fetch still ends in a
\* returned result.
C10_RaisesOnEmbedOrSearchError ==
  rtRet.kind # "none"
    => /\ rtRet.kind = "raised" <=> (rtRet.failed \cap {"embed", "search"} # {})
       /\ rtRet.failed \subseteq {"rewrite", "expand"} => rtRet.kind = "returned"

\* a call whose rewrite model and page fetch both failed returned the chunks
\* of the search
C10_Witness ==
  /\ rtRet.kind = "returned"
  /\ rtRet.failed = {"rewrite", "expand"}
  /\ rtRet.result.chunks # <<>>

\* C11: when the page fetch reports an error, returns nothing, or is not issued
\* (which is when no chunk of the search has similarity >= 0.50), the call
\* raises no error and returns exactly the chunks of the search, in the order
\* the search returned them and with their similarities.
C11_ExpansionBestEffort ==
  /\ (rtRet.kind # "none" /\ rtRet.fetch.issued) => rtRet.kind = "returned"
  /\ rtRet.kind = "returned"
       => /\ rtRet.fetch.issued
               <=> \E i \in DOMAIN rtRet.primary : rtRet.primary[i].similarity >= ExpansionFloor
          /\ (~rtRet.fetch.issued \/ rtRet.fetch.error \/ rtRet.fetch.data = <<>>)
               => rtRet.result.chunks = rtRet.primary

\* the page fetch failed after a search of two rows of equal similarity, the
\* row of the later page first, and the two rows were returned in that order
C11_Witness ==
  /\ rtRet.kind = "returned"
  /\ rtRet.fetch.issued
  /\ rtRet.fetch.error
  /\ Len(rtRet.primary) = 2
  /\ rtRet.primary[1].similarity = rtRet.primary[2].similarity
  /\ rtRet.primary[1].page_number > rtRet.primary[2].page_number
  /\ rtRet.result.chunks = rtRet.primary

-----------------------------------------------------------------------------
\* what the gate owes a handler that knows its classification
GatedRight(r) ==
  IF Rejects(r.domain)
    THEN /\ r.calls \cap {"retrieveContextForQuery", "completion"} = {}
         /\ r.pc \in {"save", "send", "done"}
         /\ r.pc = "done" => "rejectionMsg" \in Range(r.replies)
    ELSE /\ "retrieveContextForQuery" \in r.calls
         /\ "rejectionMsg" \notin Range(r.replies)

\* C12: once a chat or Telegram handler knows the classification, it is on the
\* rejection path, with neither retrieveContextForQuery nor the answer
\* completion called, exactly when in_domain = FALSE and is_financial = FALSE;
\* for the other three combinations retrieveContextForQuery has been called
\* and the fixed out-of-scope message is never sent.
C12_DomainGate ==
  /\ \A r \in BagToSet(gateRequests) : r.classified => GatedRight(r)
  /\ gateDone.classified => GatedRight(gateDone)

\* a handler was given in_domain = FALSE with is_financial = TRUE and went on
\* to the answer completion, while another was rejected
C12_Witness ==
  /\ gateDone.classified /\ Rejects(gateDone.domain)
  /\ gateDone.replies = <<"rejectionMsg">>
  /\ \E r \in Handling("complete") :
       ~r.domain.in_domain /\ r.domain.is_financial

-----------------------------------------------------------------------------
\* C13: in the chunk list retrieveContextForQuery returns, with the expansion
\* applied, skipped or failed, no page-expanded chunk (similarity 0) comes
\* before a vector-matched one, the vector-matched chunks are in
\* non-increasing similarity order and the page-expanded chunks in
\* non-decreasing page order.
C13_ResultOrdering ==
  rtRet.kind = "returned" =>
    LET chunks == rtRet.result.chunks
    IN  \A i, j \in DOMAIN chunks :
          i < j =>
            /\ chunks[i].similarity = 0 => chunks[j].similarity = 0
            /\ (chunks[i].similarity > 0 /\ chunks[j].similarity > 0)
                 => chunks[i].similarity >= chunks[j].similarity
            /\ (chunks[i].similarity = 0 /\ chunks[j].similarity = 0)
                 => chunks[i].page_number <= chunks[j].page_number

\* the fetch returned rows of page 2 ahead of rows of page 1, and the result
\* has vector-matched chunks of different similarity followed by expanded
\* chunks of both pages
C13_Witness ==
  /\ rtRet.kind = "returned"
  /\ rtRet.fetch.issued /\ ~rtRet.fetch.error
  /\ \E i, j \in DOMAIN rtRet.fetch.data :
       i < j /\ rtRet.fetch.data[i].page_number > rtRet.fetch.data[j].page_number
  /\ LET chunks == rtRet.result.chunks
     IN  /\ \E i, j \in DOMAIN chunks :
              chunks[i].similarity > chunks[j].similarity /\ chunks[j].similarity > 0
         /\ \E i, j \in DOMAIN chunks :
              /\ chunks[i].similarity = 0 /\ chunks[j].similarity = 0
              /\ chunks[i].page_number < chunks[j].page_number

-----------------------------------------------------------------------------
\* C14: the context built from the final chunk list is the empty string
\* exactly when the list is empty; a non-empty list gives a non-empty
\* context, also when its first chunk is cut to the budget or has no text.
C14_EmptyContextSignal ==
  asmDone => (asmContext = <<>> <=> asmChunks = <<>>)

\* the first chunk's header alone exceeds the budget: the context is that
\* header with none of the text
C14_Witness ==
  /\ asmDone
  /\ asmChunks # <<>>
  /\ Len(Header(asmChunks[1])) > ragConfig.maxContextChars
  /\ asmContext = Header(asmChunks[1])

-----------------------------------------------------------------------------
\* C15: however concurrent retrieveContextForQuery calls interleave at their
\* awaits, the embedding cache holds at most maxSize entries, holds no key
\* twice, and maps each key to a vector the embedding call returned for that
\* key.
C15_EmbeddingCacheIntegrity ==
  LET map == embeddingCache.map
  IN  /\ Len(map) <= embeddingCache.maxSize
      /\ \A i, j \in DOMAIN map : map[i].key = map[j].key => i = j
      /\ \A i \in DOMAIN map :
           /\ map[i].value.input = map[i].key
           /\ map[i].value.vector \in EmbeddingVectors

\* two calls missed on the same rewritten query and both called the
\* embedding capability: one holds the vector it stored, the cache holds
\* the other vector, stored under the same key by the other call
C15_Witness ==
  \E call \in InFlight("search") :
    /\ rtStarted = 2
    /\ call.queryEmbedding.input = call.rewrittenQuery
    /\ \E i \in DOMAIN embeddingCache.map :
         /\ embeddingCache.map[i].key = call.rewrittenQuery
         /\ embeddingCache.map[i].value # call.queryEmbedding

-----------------------------------------------------------------------------
\* C16: whatever the environment overrides hold, the loaded ragConfig has
\* both similarity thresholds in [0, 0.99], the counts and caps at least 1,
\* maxContextChars at least 1000, chunkSize at least 300 and
\* 50 <= chunkOverlap < chunkSize.
C16_ConfigBounds ==
  configLoaded =>
    /\ 0 <= ragConfig.matchThreshold /\ ragConfig.matchThreshold <= 990
    /\ 0 <= ragConfig.minSourceSimilarity /\ ragConfig.minSourceSimilarity <= 990
    /\ ragConfig.matchCount >= 1
    /\ ragConfig.maxVectorMatchesForExpansion >= 1
    /\ ragConfig.maxPagesForExpansion >= 1
    /\ ragConfig.maxContextChunks >= 1
    /\ ragConfig.maxContextChars >= 1000
    /\ ragConfig.chunkSize >= 300
    /\ 50 <= ragConfig.chunkOverlap
    /\ ragConfig.chunkOverlap < ragConfig.chunkSize

-----------------------------------------------------------------------------
\* the seed set of the call that just returned, and the (document, page)
\* pairs its page fetch asked for
ReturnedSeeds == ExpansionSeedChunks(ragConfig, rtRet.primary)

FetchedPairs == {<<d, p>> : d \in Range(rtRet.fetch.docIds), p \in Range(rtRet.fetch.pageNums)}

\* C19: every page-expanded chunk (similarity 0) of the result lies on a
\* (document_id, page_number) pair on which a chunk of the seed set, of
\* similarity >= 0.50, lies.
C19_ExpansionOnSeedPages ==
  rtRet.kind = "returned" =>
    \A i \in DOMAIN rtRet.result.chunks :
      LET c == rtRet.result.chunks[i]
      IN  c.similarity = 0 =>
            \E j \in DOMAIN ReturnedSeeds :
              /\ ReturnedSeeds[j].similarity >= ExpansionFloor
              /\ ReturnedSeeds[j].document_id = c.document_id
              /\ ReturnedSeeds[j].page_number = c.page_number

\* C20: the page fetch is seeded by at most maxVectorMatchesForExpansion
\* primary chunks, all of similarity >= 0.50, and asks for at most
\* maxPagesForExpansion distinct (document, page) pairs.
C20_ExpansionCaps ==
  (rtRet.kind = "returned" /\ rtRet.fetch.issued) =>
    /\ Len(ReturnedSeeds) <= ragConfig.maxVectorMatchesForExpansion
    /\ \A j \in DOMAIN ReturnedSeeds : ReturnedSeeds[j].similarity >= ExpansionFloor
    /\ Range(rtRet.fetch.docIds) = {ReturnedSeeds[j].document_id : j \in DOMAIN ReturnedSeeds}
    /\ Range(rtRet.fetch.pageNums) \subseteq {ReturnedSeeds[j].page_number : j \in DOMAIN ReturnedSeeds}
    /\ Cardinality(FetchedPairs) <= ragConfig.maxPagesForExpansion

\* the call that returned fetched pages, and rows came back
MergedReturn ==
  /\ rtRet.kind = "returned"
  /\ rtRet.fetch.issued
  /\ ~rtRet.fetch.error
  /\ rtRet.fetch.data # <<>>

\* a fetched row as the chunk the merge makes of it
AsExpanded(pc) == RetrievedChunk(pc.document_id, pc.filename, pc.page_number, pc.text, 0)

SameStoredChunk(a, b) ==
  /\ a.document_id = b.document_id
  /\ a.filename = b.filename
  /\ a.page_number = b.page_number
  /\ a.text = b.text

PrefixKey(c) == <<c.document_id, c.page_number, SliceTo(c.text, KeyPrefix)>>

Occurrences(chunks, c) == Cardinality({j \in DOMAIN chunks : chunks[j] = c})

ExpandedWithKey(chunks, key) ==
  {j \in DOMAIN chunks : chunks[j].similarity = 0 /\ PrefixKey(chunks[j]) = key}

\* C21 as stated: after a successful page fetch the result holds every
\* primary-search chunk with its similarity unchanged and, with similarity 0
\* and exactly once, every fetched chunk that is not already in the list, so
\* every chunk stored on an expanded page appears in the final list.
C21_EveryFetchedChunkMerged ==
  MergedReturn =>
    /\ \A i \in DOMAIN rtRet.primary :
         Occurrences(rtRet.result.chunks, rtRet.primary[i])
           = Occurrences(rtRet.primary, rtRet.primary[i])
    /\ \A k \in DOMAIN rtRet.fetch.data :
         LET pc == rtRet.fetch.data[k]
         IN  /\ (\A i \in DOMAIN rtRet.primary : ~SameStoredChunk(rtRet.primary[i], pc))
                  => Occurrences(rtRet.result.chunks, AsExpanded(pc)) = 1
             /\ \E j \in DOMAIN rtRet.result.chunks :
                  SameStoredChunk(rtRet.result.chunks[j], pc)

\* C21 (amended): after a successful page fetch that returned rows the
\* result holds every primary-search chunk with its similarity unchanged
\* and, with similarity 0, one chunk for every key (document, page, first 40
\* characters of the text) of a fetched row that no primary chunk has,
\* namely the first fetched row of that key, and no other chunk.
C21_MergeByPrefixKey ==
  MergedReturn =>
    LET primary == rtRet.primary
        data == rtRet.fetch.data
        chunks == rtRet.result.chunks
        Fresh(k) == \A i \in DOMAIN primary : PrefixKey(primary[i]) # PrefixKey(data[k])
        First(k) == \A h \in 1..(k - 1) : PrefixKey(data[h]) # PrefixKey(data[k])
    IN  /\ \A i \in DOMAIN primary :
             Occurrences(chunks, primary[i]) = Occurrences(primary, primary[i])
        /\ \A k \in DOMAIN data :
             IF Fresh(k)
               THEN /\ Cardinality(ExpandedWithKey(chunks, PrefixKey(data[k]))) = 1
                    /\ First(k) => Occurrences(chunks, AsExpanded(data[k])) = 1
               ELSE ExpandedWithKey(chunks, PrefixKey(data[k])) = {}
        /\ Len(chunks)
             = Len(primary) + Cardinality({PrefixKey(data[k]) : k \in {h \in DOMAIN data : Fresh(h)}})

\* two fetched rows with one key and different texts, neither key in the
\* primary list: the first is merged and the second is not
C21_Witness ==
  /\ MergedReturn
  /\ \E h, k \in DOMAIN rtRet.fetch.data :
       /\ h < k
       /\ PrefixKey(rtRet.fetch.data[h]) = PrefixKey(rtRet.fetch.data[k])
       /\ rtRet.fetch.data[h].text # rtRet.fetch.data[k].text
       /\ \A i \in DOMAIN rtRet.primary :
            PrefixKey(rtRet.primary[i]) # PrefixKey(rtRet.fetch.data[k])
       /\ Occurrences(rtRet.result.chunks, AsExpanded(rtRet.fetch.data[h])) = 1
       /\ Occurrences(rtRet.result.chunks, AsExpanded(rtRet.fetch.data[k])) = 0

\* the step is the cache lookup of call, which goes on as next
LookupStep(call, next) ==
  /\ call \in InFlight("lookup")
  /\ next # call
  /\ rtCalls' = Replace(call, next)

CachedValue(cache, key) == cache.map[MapIndex(cache.map, key)].value

\* the step ends call, and with it the only call there has been
OnlyCallEnds(call) ==
  /\ rtStarted = 1
  /\ call \in BagToSet(rtCalls)
  /\ call.pc \in {"embed", "search", "expand"}
  /\ rtCalls' = EmptyBag

Standalone(query) ==
  /\ ~TestWordPattern(REWRITE_CONTEXT_DEPENDENT_PATTERN, toLowerCase(query))
  /\ WordCount(query) > 3
  /\ Len(query) <= 220

StandaloneTrimmed == {q \in RewriteQueries : Standalone(trim(q))}

PrefixBlocks(chunks, k) == Join([i \in 1..k |-> Block(chunks[i])], Separator)

\* the longest prefix of at most maxContextChunks chunks whose joined blocks
\* are within maxContextChars
StopPoint(cfg, chunks) ==
  Max({k \in 0..Min({Len(chunks), cfg.maxContextChunks}) :
         Len(PrefixBlocks(chunks, k)) <= cfg.maxContextChars})

FirstBlockOverBudget(cfg, chunks) ==
  chunks # <<>> /\ Len(Block(chunks[1])) > cfg.maxContextChars

\* C24 as stated: the context returned by toContext is exactly the blocks of
\* a contiguous prefix of the chunk sequence, in order; the prefix ends at
\* the first chunk whose block would push the total over maxContextChars or
\* once maxContextChunks blocks are taken, and no later chunk is included.
C24_ContextIsPrefixOfBlocks ==
  asmDone => asmContext = PrefixBlocks(asmChunks, StopPoint(ragConfig, asmChunks))

\* C24 (amended): the same, except when the block of the first chunk alone
\* is over maxContextChars: the context is then the header of the first
\* chunk followed by its text cut to what the header leaves of the budget.
C24_ContextIsPrefixOrCutFirst ==
  asmDone =>
    IF FirstBlockOverBudget(ragConfig, asmChunks)
      THEN asmContext
             = Header(asmChunks[1])
                 \o SliceTo(asmChunks[1].text,
                            Max({0, ragConfig.maxContextChars - Len(Header(asmChunks[1]))}))
      ELSE asmContext = PrefixBlocks(asmChunks, StopPoint(ragConfig, asmChunks))

\* the second chunk did not fit and ended the prefix, and the third, whose
\* block would have fitted after the first, is not in the context
C24_Witness ==
  /\ asmDone
  /\ Len(asmChunks) = 3
  /\ StopPoint(ragConfig, asmChunks) = 1
  /\ asmContext = Block(asmChunks[1])
  /\ Len(Block(asmChunks[1])) + Len(Separator) + Len(Block(asmChunks[3]))
       <= ragConfig.maxContextChars

Cited(sources, chunk) ==
  \E j \in DOMAIN sources :
    sources[j].filename = chunk.filename /\ sources[j].page = chunk.page_number

\* C25: for every chunk of the result whose similarity is >=
\* minSourceSimilarity, buildSources returns an entry with that chunk's
\* (filename, page), whether or not the chunk's block was included in or
\* cut from the assembled context.
C25_SourcesIgnoreBudget ==
  asmDone =>
    \A i \in DOMAIN asmChunks :
      asmChunks[i].similarity >= ragConfig.minSourceSimilarity
        => Cited(asmSources, asmChunks[i])

\* the context ends with the first chunk; the third chunk, of another page,
\* is left out of it and is cited
C25_Witness ==
  /\ asmDone
  /\ Len(asmChunks) = 3
  /\ asmContext = Block(asmChunks[1])
  /\ asmChunks[3].similarity >= ragConfig.minSourceSimilarity
  /\ asmChunks[3].page_number # asmChunks[1].page_number
  /\ asmChunks[3].page_number # asmChunks[2].page_number
  /\ Cited(asmSources, asmChunks[3])

\* a classification the model gave was stored under key, and its TTL runs at t
CachedWithinTTL(key, t) ==
  /\ key \in DOMAIN clsStored
  /\ t <= clsStored[key].at + TTL_MS

\* C26: once a model-derived classification is cached for a normalized
\* query, every classifyQueryDomain call within the TTL whose query
\* normalizes to that key and holds no fast-path keyword returns the
\* classification cached for the key, with no model call, whatever
\* conversation history it is given.
C26_CacheIgnoresHistory ==
  [][\A q \in Queries \ HasFastPathTerm :
       (/\ clsStarted' = clsStarted + 1
        /\ clsLookup'.key = trim(toLowerCase(q))
        /\ CachedWithinTTL(trim(toLowerCase(q)), now))
         => /\ clsRet'.kind = "returned"
            /\ clsRet'.via = "cache"
            /\ clsRet'.result = clsStored[trim(toLowerCase(q))].result
            /\ clsPending' = clsPending]_vars

\* a call with conversation history, for a query typed otherwise than its
\* key, was answered from the cache with what the model had said of the key
C26_Witness ==
  /\ clsRet.kind = "returned"
  /\ clsRet.via = "cache"
  /\ clsLookup.done
  /\ clsLookup.conversationHistory # <<>>
  /\ clsRet.query # clsLookup.key
  /\ CachedWithinTTL(clsLookup.key, now)
  /\ clsRet.result = clsStored[clsLookup.key].result
  /\ ~clsRet.result.in_domain

\* key is the most recently used entry of cache
MostRecent(cache, key) ==
  cache.map # <<>> /\ cache.map[Len(cache.map)].key = key

\* the step is the failure of the similarity search of call
SearchRaises(call) ==
  /\ call \in InFlight("search")
  /\ rtCalls' = Remove(call)
  /\ rtRet'.kind = "raised"

\* C27 as stated: when the similarity search of a call that missed the
\* embedding cache fails, the call raises and the embedding of its rewritten
\* query is in the cache as the most recently used entry.  (A call at its
\* search has either stored or found its rewritten query; with
\* MaxRetrieveCalls calls and a cache that starts empty, a call whose query
\* another has displaced had missed.)
C27_CachedMostRecentAtError ==
  [][\A call \in InFlight("search") :
       SearchRaises(call) => MostRecent(embeddingCache', call.rewrittenQuery)]_vars

\* C27 (amended): a call that misses stores the embedding as the most
\* recently used entry before it issues the search; the failure of the
\* search raises and leaves the cache as it is, so the rewritten query is
\* then in the cache unless calls of other requests have found or stored
\* capacity other rewritten queries since.
C27_StoredBeforeSearch ==
  [][/\ \A call \in InFlight("embed") : \A next \in BagToSet(rtCalls') :
          (next.pc = "search" /\ rtCalls' = Replace(call, next))
            => /\ MostRecent(embeddingCache', call.rewrittenQuery)
               /\ CachedValue(embeddingCache', call.rewrittenQuery) = next.queryEmbedding
     /\ \A call \in InFlight("search") :
          SearchRaises(call)
            => /\ "search" \in rtRet'.failed
               /\ embeddingCache' = embeddingCache
               /\ call.rewrittenQuery \in Range(lruRecent)
                    => LRUHas(embeddingCache', call.rewrittenQuery)]_vars

\* the only call there has been missed the empty cache, stored its
\* embedding and raised the error of its search: the cache holds the entry
C27_Witness ==
  /\ rtStarted = 1
  /\ rtRet.kind = "raised"
  /\ "search" \in rtRet.failed
  /\ rtCalls = EmptyBag
  /\ Len(embeddingCache.map) = 1
  /\ lruRecent = <<embeddingCache.map[1].key>>

\* the source entry is the one buildSources makes of a chunk of the search
FromPrimary(source) ==
  \E i \in DOMAIN rtRet.primary : source = RetrievalSource(rtRet.primary[i])

\* C28: for every configuration the loader admits, no chunk added by page
\* expansion (similarity 0) produces an entry in the sources returned by
\* retrieveContextForQuery: every entry is that of a chunk of the search.
C28_ExpandedNeverCited ==
  rtRet.kind = "returned" =>
    \A j \in DOMAIN rtRet.result.sources : FromPrimary(rtRet.result.sources[j])

-----------------------------------------------------------------------------
(* Claims about the ingestion of documents *)

\* C29: for every page text and every chunkSize / chunkOverlap pair the
\* loader admits, the start position of the chunkPage loop strictly
\* increases from one iteration to the next (so the loop terminates and
\* processDocument reaches a final status).
C29_StartIncreases ==
  [][(chunkPc = "loop" /\ chunkPc' = "loop") => chunkStart' > chunkStart]_vars

\* C30: for one document, under every interleaving of concurrent reprocess
\* requests, at most one processDocument run is active at a time.
C30_OneRunAtATime == Cardinality(processRuns) <= 1

====
